---- MODULE Spec2Model ----
(***************************************************************************)
(* A model of kubit's controller (src/src/controller.rs): the reconcile    *)
(* handler of one AppInstance "demo" in namespace "ns1", run by a          *)
(* normal-mode and a paused-mode reconciler against one API server.        *)
(* Every Kubernetes API call of the handler is one atomic step; the        *)
(* handler's position and locals are kept per reconciler in loc.           *)
(***************************************************************************)
EXTENDS Integers, Sequences, FiniteSets, TLC

\* ---------------------------------------------------------------- bounds

\* Reconcile invocations in one behaviour (each sleeps one second first).
MaxClock == 4
\* Longest condition list of a Job handed to the state classifier.
MaxConds == 3
\* Most lines in the log of one container.
MaxLines == 3

\* Latest reading of the wall clock handed to update_condition_vec.
MaxTime == 2
\* Most Job launches followed when several instances share the RBAC objects.
MaxLaunches == 3

\* ------------------------------------------------------------- constants

Name == "demo"

Namespace == "ns1"

KUBIT_FINALIZER == "kubecfg.dev/appinstance-cleanup"

APPLIER_SERVICE_ACCOUNT == "kubit-applier"

\* Seconds before the retry that follows an observed Job failure.
RETRY_AFTER_JOB_FAILURE == 60

\* The two reconcilers that may run side by side, named by their mode.
Workers == {"normal", "paused"}

only_paused(w) == w = "paused"

\* spec.imagePullSecrets: absent, an empty list, one entry, two entries.
SecretChoices == {"none", "empty", "one", "two"}

NamespacedRbac == <<"ServiceAccount", "Role", "RoleBinding">>

ClusterRbac == <<"ClusterRole", "ClusterRoleBinding">>

\* ------------------------------------------------------------------ state

VARIABLES
    inst,      \* the AppInstance: exists, finalizers, deleting, pause, secrets
    status,    \* its status: conditions, last_logs
    jobs,      \* the Jobs of the namespace
    rbac,      \* the kinds of RBAC objects that exist
    hackCM,    \* whether the ConfigMap demo-cleanup exists
    now,       \* the wall clock, in seconds
    nextUid,   \* Jobs created so far (the last UID given out)
    loc,       \* per reconciler: position and locals of its reconcile call
    hist,      \* the cluster as the last reconcile_apply call left it (valid
               \* while nothing but reconcile touched it; clean: nothing else
               \* touched it since the running call began)
    probe      \* a Job handed to the state classifier, and its answer

vars == <<inst, status, jobs, rbac, hackCM, now, nextUid, loc, hist, probe>>

clusterVars == <<inst, status, jobs, rbac, hackCM>>

Cluster ==
    [inst |-> inst, status |-> status, jobs |-> jobs, rbac |-> rbac,
     hackCM |-> hackCM]

\* --------------------------------------------------------- pure functions

\* A variant that names each Job after the time of its creation.
job_name_for_timestamped(job_type) ==
    "kubit-" \o job_type \o "-" \o Name \o "-" \o ToString(now)

job_name_for(job_type) == "kubit-" \o job_type \o "-" \o Name

cleanup_hack_resource_name(name) == name \o "-cleanup"

\* conds.iter().find(|c| c.type_ == t): the index of the first condition of
\* type t, 0 when there is none.
FindCondition(conds, t) ==
    LET hits == {i \in 1..Len(conds) : conds[i].type = t}
    IN  IF hits = {} THEN 0 ELSE CHOOSE i \in hits : \A k \in hits : i <= k

\* kube::runtime::conditions::is_job_completed, as used by the classifier.
is_job_completed(job) ==
    LET i == FindCondition(job.conds, "Complete")
    IN  i # 0 /\ job.conds[i].status = "True"

\* A variant that looks for any Failed condition with status True.
is_job_failed_any(job) ==
    \E i \in 1..Len(job.conds) :
        job.conds[i].type = "Failed" /\ job.conds[i].status = "True"

is_job_failed(job) ==
    LET i == FindCondition(job.conds, "Failed")
    IN  i # 0 /\ job.conds[i].status = "True"

StateOf(kind, uid, outcome) == [kind |-> kind, uid |-> uid, outcome |-> outcome]

\* The classifier applied to the answer of get_opt (a set: empty or one Job).
\* A Job without the controller-uid label makes expect() panic.
reconciliation_state(found) ==
    IF found = {} THEN StateOf("Idle", 0, "-")
    ELSE LET job == CHOOSE j \in found : TRUE
         IN  IF ~job.label THEN StateOf("Panic", 0, "-")
             ELSE IF is_job_completed(job)
                  THEN StateOf("JobTerminated", job.uid, "Success")
             ELSE IF is_job_failed(job)
                  THEN StateOf("JobTerminated", job.uid, "Failure")
             ELSE StateOf("Executing", 0, "-")

Condition(type_, status_, reason, message, t) ==
    [type |-> type_, status |-> status_, reason |-> reason,
     message |-> message, last_transition_time |-> t]

\* A variant that stamps every update with the current time.
update_condition_vec_restamped(vec, type_, status_, reason, message, t) ==
    LET i == FindCondition(vec, type_)
    IN  IF i = 0
        THEN Append(vec, Condition(type_, status_, reason, message, t))
        ELSE [vec EXCEPT ![i] = Condition(type_, status_, reason, message, t)]

\* A variant that keeps the stored message of an unchanged status.
update_condition_vec_keeps_message(vec, type_, status_, reason, message, t) ==
    LET i == FindCondition(vec, type_)
    IN  IF i = 0
        THEN Append(vec, Condition(type_, status_, reason, message, t))
        ELSE IF vec[i].status = status_ THEN vec
        ELSE [vec EXCEPT ![i] = Condition(type_, status_, reason, message, t)]

\* A variant that never restamps a stored condition.
update_condition_vec_keeps_time(vec, type_, status_, reason, message, t) ==
    LET i == FindCondition(vec, type_)
    IN  IF i = 0
        THEN Append(vec, Condition(type_, status_, reason, message, t))
        ELSE [vec EXCEPT ![i] = Condition(type_, status_, reason, message,
                                          vec[i].last_transition_time)]

\* A variant that pushes a new entry whenever the status changes.
update_condition_vec_pushes(vec, type_, status_, reason, message, t) ==
    LET i == FindCondition(vec, type_)
    IN  IF i = 0 \/ vec[i].status # status_
        THEN Append(vec, Condition(type_, status_, reason, message, t))
        ELSE [vec EXCEPT ![i] = Condition(type_, status_, reason, message,
                                          vec[i].last_transition_time)]

\* A variant that moves an updated condition to the end of the list.
update_condition_vec_moves(vec, type_, status_, reason, message, t) ==
    LET i == FindCondition(vec, type_)
    IN  IF i = 0
        THEN Append(vec, Condition(type_, status_, reason, message, t))
        ELSE Append(SubSeq(vec, 1, i - 1) \o SubSeq(vec, i + 1, Len(vec)),
                    Condition(type_, status_, reason, message,
                              IF vec[i].status = status_
                              THEN vec[i].last_transition_time ELSE t))

\* update_condition_vec, with Utc::now() passed in as t.
update_condition_vec(vec, type_, status_, reason, message, t) ==
    LET i == FindCondition(vec, type_)
    IN  IF i = 0
        THEN Append(vec, Condition(type_, status_, reason, message, t))
        ELSE [vec EXCEPT ![i] =
                 Condition(type_, status_, reason, message,
                           IF vec[i].status = status_
                           THEN vec[i].last_transition_time ELSE t)]

\* ------------------------------------------------------------- log capture

\* A variant that takes a container without state for a started one.
is_waiting_state_only(cs) == cs.state = "waiting"

\* Container statuses of a pod, init containers first.  A status is
\* [name, state, exit, log]; state "none" is an absent state field.
is_waiting(cs) == cs.state \in {"none", "waiting"}

has_failed(cs) == cs.state = "terminated" /\ cs.exit > 0

\* The last container of the pod with a non-zero exit code, "" when none.
failed_container_name(pod) ==
    LET hits == {i \in 1..Len(pod) : has_failed(pod[i])}
    IN  IF hits = {} THEN ""
        ELSE pod[CHOOSE i \in hits : \A k \in hits : k <= i].name

\* first line + "\n...\n" + last line of one container's log (a list of lines).
Summarize(log) ==
    (IF Len(log) > 0 THEN log[1] ELSE "") \o "\n...\n"
        \o (IF Len(log) > 0 THEN log[Len(log)] ELSE "")

RECURSIVE PodSummary(_, _)
PodSummary(pod, i) ==
    IF i > Len(pod) THEN ""
    ELSE (IF ~is_waiting(pod[i]) /\ pod[i].name = failed_container_name(pod)
          THEN Summarize(pod[i].log) ELSE "") \o PodSummary(pod, i + 1)

RECURSIVE log_summary(_)
log_summary(pods) ==
    IF pods = <<>> THEN ""
    ELSE PodSummary(Head(pods), 1) \o log_summary(Tail(pods))

RECURSIVE PodLogs(_, _, _)
PodLogs(pod, i, name) ==
    IF i > Len(pod) THEN <<>>
    ELSE (IF ~is_waiting(pod[i]) /\ pod[i].name = name THEN pod[i].log ELSE <<>>)
             \o PodLogs(pod, i + 1, name)

RECURSIVE ContainerLogs(_, _)
ContainerLogs(pods, name) ==
    IF pods = <<>> THEN <<>>
    ELSE PodLogs(Head(pods), 1, name) \o ContainerLogs(Tail(pods), name)

StartedNames(pods) ==
    UNION {{pods[p][i].name : i \in {k \in 1..Len(pods[p]) : ~is_waiting(pods[p][k])}} :
              p \in 1..Len(pods)}

\* The HashMap container name -> log text, as a set of pairs.
per_container_logs(pods) ==
    {<<n, ContainerLogs(pods, n)>> : n \in StartedNames(pods)}

\* ------------------------------------------------------------ null values

NoStatus == [conditions |-> <<>>, last_logs |-> {}, has_logs |-> FALSE]

NoInst ==
    [exists |-> FALSE, finalizers |-> {}, deleting |-> FALSE, pause |-> FALSE,
     secrets |-> "none"]

NoCluster ==
    [inst |-> NoInst, status |-> NoStatus, jobs |-> {}, rbac |-> {},
     hackCM |-> FALSE]

NoHist == [valid |-> FALSE, kind |-> "-", end |-> NoCluster, clean |-> FALSE]

NoResult == [kind |-> "-", secs |-> 0, err |-> "-"]

NoProbe == [job |-> {}, state |-> StateOf("-", 0, "-")]

Resting ==
    [pc |-> "idle", obj |-> NoInst, st |-> StateOf("-", 0, "-"), uid |-> 0,
     todo |-> <<>>, cont |-> "-", plan |-> NoResult, ret |-> NoResult, did |-> <<>>,
     buf |-> NoStatus]

\* ------------------------------------------------------------------- Init

Init ==
    /\ inst \in [exists : {TRUE}, finalizers : {{}}, deleting : {FALSE},
                 pause : BOOLEAN, secrets : SecretChoices]
    /\ status = NoStatus
    /\ jobs = {}
    /\ rbac = {}
    /\ hackCM = FALSE
    /\ now = 0
    /\ nextUid = 0
    /\ loc = [w \in Workers |-> Resting]
    /\ hist = NoHist
    /\ probe = NoProbe

\* ------------------------------------------------------------ API helpers

\* jobs.get_opt(name): the empty set or the one Job of that name.
get_opt(name) == {j \in jobs : j.name = name}

\* What reconcile hands back: an Action or an Error.
AwaitChange == [kind |-> "await_change", secs |-> 0, err |-> "-"]

Requeue(secs) == [kind |-> "requeue", secs |-> secs, err |-> "-"]

Err(e) == [kind |-> "err", secs |-> 0, err |-> e]

Panic == [kind |-> "panic", secs |-> 0, err |-> "-"]

Event(op, obj, arg) == [op |-> op, obj |-> obj, arg |-> arg]

ConditionUpdate(type_, status_, reason, message) ==
    [item |-> "condition", type |-> type_, status |-> status_, reason |-> reason,
     message |-> message, logs |-> {}]

LogsUpdate(logs) ==
    [item |-> "last_logs", type |-> "-", status |-> "-", reason |-> "-",
     message |-> "-", logs |-> logs]

\* The Job object create_job / launch_cleanup_job builds, as the API server
\* stores it: a fresh UID, the controller-uid label defaulted from the pod
\* template, no status yet.  The docker volume is added for a pull secret.
NewJob(job_type, uid, secrets) ==
    [name |-> job_name_for(job_type), namespace |-> Namespace,
     kind |-> job_type, uid |-> uid,
     label |-> TRUE, conds |-> <<>>, deleting |-> FALSE, pods |-> <<>>,
     docker |-> secrets = "one"]

ErrorText(err) ==
    IF err = "UnsupportedMultipleImagePullSecrets"
    THEN ".spec.imagePullSecret currently requires to have exactly one pull secret"
    ELSE IF err = "KubeError" THEN "Kube Error" ELSE err

\* reconcile's position moves to pc with the given locals changed.
Step(w, l) == loc' = [loc EXCEPT ![w] = l]

Did(w, op, obj, arg) == Append(loc[w].did, Event(op, obj, arg))

\* The call returns to the controller runtime.
Returns(w, ret, did) ==
    Step(w, [loc[w] EXCEPT !.pc = "done", !.ret = ret, !.did = did])

\* A variant that reports the new run in the Ready condition as well.
LaunchedConditions_ResetsReady ==
    << ConditionUpdate("Reconcilier", "False", "ExpandingTemplate", ""),
       ConditionUpdate("Ready", "False", "Progressing", "") >>

\* A variant that reports the launch as a finished reconciliation.
LaunchedConditions_Succeeded ==
    << ConditionUpdate("Reconcilier", "True", "Succeeded", "") >>

\* The conditions reconcile_apply sets when launch_job succeeded.
LaunchedConditions ==
    << ConditionUpdate("Reconcilier", "False", "ExpandingTemplate", "") >>

\* A variant that leaves Ready as it was when the launch fails.
LaunchFailedConditions_ReconcilierOnly(err) ==
    << ConditionUpdate("Reconcilier", "False", "Failed", "") >>

\* The conditions reconcile_apply sets when launch_job failed with err.
LaunchFailedConditions(err) ==
    << ConditionUpdate("Reconcilier", "False", "Failed", ""),
       ConditionUpdate("Ready", "False", "Failed",
                       "Cannot launch installation job: " \o ErrorText(err)) >>

\* A variant that reports every terminated Job as a failure.
TerminatedConditions_AlwaysFailed(outcome, summary) ==
    << ConditionUpdate("Reconcilier", "True", "Failed", ""),
       ConditionUpdate("Ready", "False", "JobFailed", summary) >>

\* The conditions reconcile_apply sets for a terminated Job.
TerminatedConditions(outcome, summary) ==
    IF outcome = "Success"
    THEN << ConditionUpdate("Reconcilier", "True", "Succeeded", ""),
            ConditionUpdate("Ready", "True", "JobCompletedSuccessfully", "") >>
    ELSE << ConditionUpdate("Reconcilier", "True", "Failed", ""),
            ConditionUpdate("Ready", "False", "JobFailed", summary) >>

\* A variant that never asks for a retry.
TerminatedAction_NoRetry(outcome) == AwaitChange

\* The action reconcile_apply returns for a terminated Job.
TerminatedAction(outcome) ==
    IF outcome = "Success" THEN AwaitChange
    ELSE Requeue(RETRY_AFTER_JOB_FAILURE)

\* launch_job failed with err: the Err arm of the Idle branch.
LaunchFailed(w, err, did) ==
    Step(w, [loc[w] EXCEPT
        !.pc = "status_read", !.did = did, !.cont = "done",
        !.plan = Err(err), !.todo = LaunchFailedConditions(err)])

\* ---------------------------------------------------------------- reconcile

\* A variant that never adds the finalizer.
FinalizerEvent_NeverAdds(obj) ==
    IF obj.deleting
    THEN IF KUBIT_FINALIZER \in obj.finalizers THEN "Cleanup" ELSE "Gone"
    ELSE "Apply"

\* finalizer(): the event chosen for the delivered object.
FinalizerEvent(obj) ==
    IF KUBIT_FINALIZER \in obj.finalizers
    THEN IF obj.deleting THEN "Cleanup" ELSE "Apply"
    ELSE IF obj.deleting THEN "Gone" ELSE "Add"

\* A variant without the pause check.
Dispatch_IgnoringPause(w, obj) ==
    CASE FinalizerEvent(obj) = "Add" -> "add_finalizer"
      [] FinalizerEvent(obj) = "Apply" -> "reconciliation_state"
      [] FinalizerEvent(obj) = "Cleanup" -> "delete_get_apply"
      [] FinalizerEvent(obj) = "Gone" -> "done"

\* Where reconcile goes for the delivered object: back at once when
\* spec.pause is not this reconciler's mode, else to finalizer()'s choice.
Dispatch(w, obj) ==
    IF obj.pause # only_paused(w) THEN "done"
    ELSE CASE FinalizerEvent(obj) = "Add" -> "add_finalizer"
           [] FinalizerEvent(obj) = "Apply" -> "reconciliation_state"
           [] FinalizerEvent(obj) = "Cleanup" -> "delete_get_apply"
           [] FinalizerEvent(obj) = "Gone" -> "done"

\* reconcile up to its first API call: the one-second sleep, the pause check
\* on the delivered object, and finalizer()'s choice.  exclusive: no other
\* reconcile of the instance is running.
StartAt(w, exclusive, t) ==
    /\ loc[w].pc = "idle"
    /\ inst.exists
    /\ exclusive => \A v \in Workers : loc[v].pc = "idle"
    /\ now' = t
    /\ LET pc == Dispatch(w, inst)
           l  == [Resting EXCEPT !.obj = inst, !.pc = pc]
       IN  IF pc = "done" THEN Step(w, [l EXCEPT !.ret = AwaitChange])
           ELSE Step(w, l)
    /\ hist' = [hist EXCEPT !.clean = TRUE]
    /\ UNCHANGED <<clusterVars, nextUid>>

\* A reconcile starts, at most MaxClock times.
Start(w, exclusive) ==
    /\ now < MaxClock
    /\ StartAt(w, exclusive, now + 1)
    /\ UNCHANGED probe

\* finalizer() adds the finalizer with a JSON patch that tests the delivered
\* object's finalizer list first.
AddFinalizer(w) ==
    /\ loc[w].pc = "add_finalizer"
    /\ IF inst.exists /\ inst.finalizers = loc[w].obj.finalizers
       THEN /\ inst' = [inst EXCEPT !.finalizers = @ \cup {KUBIT_FINALIZER}]
            /\ Returns(w, AwaitChange, Did(w, "patch", "finalizers", "add"))
       ELSE /\ Returns(w, Err("AddFinalizer"), loc[w].did)
            /\ UNCHANGED inst
    /\ hist' = NoHist
    /\ UNCHANGED <<status, jobs, rbac, hackCM, now, nextUid, probe>>

\* The status reports a successful run.
HasInstalled ==
    \E i \in 1..Len(status.conditions) :
        /\ status.conditions[i].type = "Ready"
        /\ status.conditions[i].status = "True"

\* A variant that launches nothing once the status reports a successful run.
MatchState_OnceOnly(l, st) ==
    CASE st.kind = "Idle" ->
             IF HasInstalled
             THEN [l EXCEPT !.st = st, !.pc = "done", !.ret = AwaitChange]
             ELSE [l EXCEPT !.st = st, !.pc = "rbac_1"]
      [] st.kind = "Executing" ->
             [l EXCEPT !.st = st, !.pc = "done", !.ret = AwaitChange]
      [] st.kind = "JobTerminated" -> [l EXCEPT !.st = st, !.pc = "capture_logs"]
      [] st.kind = "Panic" -> [l EXCEPT !.st = st, !.pc = "done", !.ret = Panic]

\* A variant that deletes a terminated Job before it reports on it.
MatchState_DeletesFirst(l, st) ==
    CASE st.kind = "Idle" -> [l EXCEPT !.st = st, !.pc = "rbac_1"]
      [] st.kind = "Executing" ->
             [l EXCEPT !.st = st, !.pc = "done", !.ret = AwaitChange]
      [] st.kind = "JobTerminated" ->
             [l EXCEPT !.st = st, !.pc = "delete_job",
                       !.plan = TerminatedAction(st.outcome)]
      [] st.kind = "Panic" -> [l EXCEPT !.st = st, !.pc = "done", !.ret = Panic]

\* A variant that launches again while a Job executes.
MatchState_ExecutingLaunches(l, st) ==
    CASE st.kind \in {"Idle", "Executing"} -> [l EXCEPT !.st = st, !.pc = "rbac_1"]
      [] st.kind = "JobTerminated" -> [l EXCEPT !.st = st, !.pc = "capture_logs"]
      [] st.kind = "Panic" -> [l EXCEPT !.st = st, !.pc = "done", !.ret = Panic]

\* reconcile_apply's match on the state: the locals l after it.
MatchState(l, st) ==
    CASE st.kind = "Idle" -> [l EXCEPT !.st = st, !.pc = "rbac_1"]
      [] st.kind = "Executing" ->
             [l EXCEPT !.st = st, !.pc = "done", !.ret = AwaitChange]
      [] st.kind = "JobTerminated" -> [l EXCEPT !.st = st, !.pc = "capture_logs"]
      [] st.kind = "Panic" -> [l EXCEPT !.st = st, !.pc = "done", !.ret = Panic]

\* reconcile_apply: classify the apply Job.
ReconciliationState(w) ==
    /\ loc[w].pc = "reconciliation_state"
    /\ Step(w, MatchState(loc[w],
                           reconciliation_state(get_opt(job_name_for("apply")))))
    /\ UNCHANGED <<clusterVars, now, nextUid, hist, probe>>

\* A variant that sets up the cluster-wide roles on both paths.
RbacPlan_AlwaysCluster(w) == NamespacedRbac \o ClusterRbac

\* The RBAC objects applied before a Job: the namespaced three, and for the
\* apply Job the cluster-wide two.
RbacPlan(w) ==
    IF loc[w].obj.deleting THEN NamespacedRbac ELSE NamespacedRbac \o ClusterRbac

RbacPcs == {"rbac_1", "rbac_2", "rbac_3", "rbac_4", "rbac_5"}

RbacIndex(pc) ==
    CASE pc = "rbac_1" -> 1 [] pc = "rbac_2" -> 2 [] pc = "rbac_3" -> 3
      [] pc = "rbac_4" -> 4 [] pc = "rbac_5" -> 5

RbacPc(i) == <<"rbac_1", "rbac_2", "rbac_3", "rbac_4", "rbac_5">>[i]

\* setup_namespaced_roles / setup_cluster_roles: one forced apply-patch.
ApplyRbac(w) ==
    /\ loc[w].pc \in RbacPcs
    /\ LET i    == RbacIndex(loc[w].pc)
           kind == RbacPlan(w)[i]
           next == IF i < Len(RbacPlan(w)) THEN RbacPc(i + 1)
                   ELSE IF loc[w].obj.deleting THEN "launch_cleanup_job"
                   ELSE "fetch_package_config"
       IN  /\ rbac' = rbac \cup {kind}
           /\ Step(w, [loc[w] EXCEPT !.pc = next,
                                     !.did = Did(w, "apply", kind, "-")])
    /\ UNCHANGED <<inst, status, jobs, hackCM, now, nextUid, hist, probe>>

\* fetch_package_config: credentials, then the package's metadata.
FetchPackageConfig(w) ==
    /\ loc[w].pc = "fetch_package_config"
    /\ IF loc[w].obj.secrets = "two"
       THEN LaunchFailed(w, "UnsupportedMultipleImagePullSecrets", loc[w].did)
       ELSE Step(w, [loc[w] EXCEPT !.pc = "create_job"])
    /\ UNCHANGED <<clusterVars, now, nextUid, hist, probe>>

\* The answers of the API server to jobs.create for a Job of the given name:
\* created, or already there, or an error of the server or the transport.
CreateAnswers(name) ==
    (IF get_opt(name) = {} THEN {"201"} ELSE {"409"}) \cup {"500", "transport"}

\* A variant that takes every answer for a success.
handle_resource_exists_absorbs_all(res) == "Ok"

\* handle_resource_exists: Ok for a created object and for a 409, Err for
\* every other answer.
handle_resource_exists(res) ==
    IF res \in {"201", "409"} THEN "Ok" ELSE "Err"

\* create_job: the Job is built (exactly one pull secret when the field is
\* set) and sent with jobs.create through handle_resource_exists.
CreateJob(w) ==
    /\ loc[w].pc = "create_job"
    /\ IF loc[w].obj.secrets \in {"empty", "two"}
       THEN /\ LaunchFailed(w, "UnsupportedMultipleImagePullSecrets", loc[w].did)
            /\ UNCHANGED <<jobs, nextUid, hist>>
       ELSE \E res \in CreateAnswers(job_name_for("apply")) :
            LET did == IF res = "201"
                       THEN Did(w, "create", job_name_for("apply"), "-")
                       ELSE Did(w, "refused", job_name_for("apply"), res)
            IN  /\ IF res = "201"
                   THEN /\ jobs' = jobs \cup
                               {NewJob("apply", nextUid + 1, loc[w].obj.secrets)}
                        /\ nextUid' = nextUid + 1
                   ELSE UNCHANGED <<jobs, nextUid>>
                /\ IF handle_resource_exists(res) = "Ok"
                   THEN Step(w, [loc[w] EXCEPT
                           !.pc = "status_read", !.cont = "done",
                           !.plan = AwaitChange, !.did = did,
                           !.todo = LaunchedConditions])
                   ELSE LaunchFailed(w, "KubeError", did)
                /\ hist' = IF res \in {"201", "409"} THEN hist ELSE NoHist
    /\ UNCHANGED <<inst, status, rbac, hackCM, now, probe>>

\* old_status, then the new status computed from it: update_condition's
\* update_condition_vec at Utc::now(), or capture_logs' last_logs.
StatusRead(w) ==
    /\ loc[w].pc = "status_read"
    /\ IF ~inst.exists
       THEN Returns(w, Err("KubeError"), loc[w].did)
       ELSE LET u == Head(loc[w].todo)
                new == IF u.item = "condition"
                       THEN [status EXCEPT !.conditions =
                                update_condition_vec(@, u.type, u.status,
                                                     u.reason, u.message, now)]
                       ELSE [status EXCEPT !.last_logs = u.logs,
                                           !.has_logs = TRUE]
            IN  Step(w, [loc[w] EXCEPT !.pc = "status_write", !.buf = new])
    /\ UNCHANGED <<clusterVars, now, nextUid, hist, probe>>

\* update_status: the forced apply-patch of the whole status.
StatusWrite(w) ==
    /\ loc[w].pc = "status_write"
    /\ IF ~inst.exists
       THEN /\ Returns(w, Err("KubeError"), loc[w].did)
            /\ UNCHANGED status
       ELSE LET u    == Head(loc[w].todo)
                rest == Tail(loc[w].todo)
                did  == Did(w, "status",
                            IF u.item = "condition" THEN u.type ELSE "lastLogs",
                            u.status \o "/" \o u.reason)
                l    == [loc[w] EXCEPT !.todo = rest, !.did = did,
                                       !.buf = NoStatus]
            IN  /\ status' = loc[w].buf
                /\ IF rest # <<>>
                   THEN Step(w, [l EXCEPT !.pc = "status_read"])
                   ELSE IF loc[w].cont = "done"
                   THEN Step(w, [l EXCEPT !.pc = "done", !.ret = loc[w].plan])
                   ELSE Step(w, [l EXCEPT !.pc = loc[w].cont])
    /\ UNCHANGED <<inst, jobs, rbac, hackCM, now, nextUid, hist, probe>>

\* The pods selected by job-name=<job>,controller-uid=<uid>.
PodsOf(job_name, uid) ==
    LET js == {j \in jobs : j.name = job_name /\ j.uid = uid}
    IN  IF js = {} THEN <<>> ELSE (CHOOSE j \in js : TRUE).pods

\* capture_logs up to its status write, and the condition updates of the
\* JobTerminated branch that follow it.
CaptureLogs(w) ==
    /\ loc[w].pc = "capture_logs"
    /\ LET pods == PodsOf(job_name_for("apply"), loc[w].st.uid)
       IN  Step(w, [loc[w] EXCEPT
              !.pc = "status_read", !.cont = "delete_job",
              !.plan = TerminatedAction(loc[w].st.outcome),
              !.todo = <<LogsUpdate(per_container_logs(pods))>> \o
                       TerminatedConditions(loc[w].st.outcome,
                                            log_summary(pods))])
    /\ UNCHANGED <<clusterVars, now, nextUid, hist, probe>>

\* A variant that leaves the terminated Job in place.
DeleteJob_Skipped(w) ==
    /\ loc[w].pc = "delete_job"
    /\ Returns(w, loc[w].plan, loc[w].did)
    /\ UNCHANGED <<inst, status, jobs, rbac, hackCM, now, nextUid, hist, probe>>

\* delete_job: a foreground delete of the apply Job; the Job stays, marked
\* for deletion, until the garbage collector has removed its pods.
DeleteJob(w) ==
    /\ loc[w].pc = "delete_job"
    /\ IF get_opt(job_name_for("apply")) = {}
       THEN /\ Returns(w, Err("KubeError"), loc[w].did)
            /\ UNCHANGED jobs
       ELSE LET did == Did(w, "delete", job_name_for("apply"), "-")
            IN  /\ jobs' = {IF j.name = job_name_for("apply")
                            THEN [j EXCEPT !.deleting = TRUE] ELSE j : j \in jobs}
                /\ IF loc[w].obj.deleting
                   THEN Step(w, [loc[w] EXCEPT !.pc = "await_deleted", !.did = did])
                   ELSE Returns(w, loc[w].plan, did)
    /\ UNCHANGED <<inst, status, rbac, hackCM, now, nextUid, hist, probe>>

\* reconcile_delete: look for the apply Job.
DeleteGetApply(w) ==
    /\ loc[w].pc = "delete_get_apply"
    /\ LET found == get_opt(job_name_for("apply"))
       IN  IF found # {}
           THEN Step(w, [loc[w] EXCEPT !.pc = "delete_job",
                                       !.uid = (CHOOSE j \in found : TRUE).uid])
           ELSE Step(w, [loc[w] EXCEPT !.pc = "delete_get_cleanup"])
    /\ UNCHANGED <<clusterVars, now, nextUid, hist, probe>>

\* timeout(120s, await_condition(is_deleted(uid))).is_err(): only the elapsed
\* timeout is an error; a failed watch ends the wait like a confirmation.
AwaitDeleted(w) ==
    /\ loc[w].pc = "await_deleted"
    /\ LET there == {j \in get_opt(job_name_for("apply")) : j.uid = loc[w].uid} # {}
       IN  \/ /\ ~there
              /\ Step(w, [loc[w] EXCEPT !.pc = "rbac_1",
                     !.did = Did(w, "await", "is_deleted", "confirmed")])
           \/ /\ there
              /\ Returns(w, Err("ResourceDeletionTimeout"),
                         Did(w, "await", "is_deleted", "timeout"))
           \/ /\ there
              /\ Step(w, [loc[w] EXCEPT !.pc = "rbac_1",
                     !.did = Did(w, "await", "is_deleted", "probe_failed")])
    /\ UNCHANGED <<clusterVars, now, nextUid, hist, probe>>

\* reconcile_delete without an apply Job: look for the cleanup Job.
DeleteGetCleanup(w) ==
    /\ loc[w].pc = "delete_get_cleanup"
    /\ IF get_opt(job_name_for("cleanup")) # {}
       THEN Step(w, [loc[w] EXCEPT !.pc = "rbac_1"])
       ELSE Step(w, [loc[w] EXCEPT !.pc = "delete_hack_configmap"])
    /\ UNCHANGED <<clusterVars, now, nextUid, hist, probe>>

\* launch_cleanup_job: the Job is built and sent with jobs.create through
\* handle_resource_exists.
LaunchCleanupJob(w) ==
    /\ loc[w].pc = "launch_cleanup_job"
    /\ IF loc[w].obj.secrets \in {"empty", "two"}
       THEN /\ Returns(w, Err("UnsupportedMultipleImagePullSecrets"), loc[w].did)
            /\ UNCHANGED <<jobs, nextUid>>
       ELSE \E res \in CreateAnswers(job_name_for("cleanup")) :
            LET did == IF res = "201"
                       THEN Did(w, "create", job_name_for("cleanup"), "-")
                       ELSE Did(w, "refused", job_name_for("cleanup"), res)
            IN  /\ IF res = "201"
                   THEN /\ jobs' = jobs \cup
                               {NewJob("cleanup", nextUid + 1, loc[w].obj.secrets)}
                        /\ nextUid' = nextUid + 1
                   ELSE UNCHANGED <<jobs, nextUid>>
                /\ IF handle_resource_exists(res) = "Ok"
                   THEN Step(w, [loc[w] EXCEPT !.pc = "await_completed",
                                               !.did = did])
                   ELSE Returns(w, Err("KubeError"), did)
    /\ UNCHANGED <<inst, status, rbac, hackCM, now, hist, probe>>

\* create_cleanup's timeout(120s, await_condition(is_job_completed())).
AwaitCompleted(w) ==
    /\ loc[w].pc = "await_completed"
    /\ LET complete == \E j \in get_opt(job_name_for("cleanup")) : is_job_completed(j)
       IN  \/ /\ complete
              /\ Step(w, [loc[w] EXCEPT !.pc = "delete_hack_configmap",
                     !.did = Did(w, "await", "is_job_completed", "confirmed")])
           \/ /\ ~complete
              /\ Returns(w, Err("ResourceDeletionTimeout"),
                         Did(w, "await", "is_job_completed", "timeout"))
           \/ /\ ~complete
              /\ Step(w, [loc[w] EXCEPT !.pc = "delete_hack_configmap",
                     !.did = Did(w, "await", "is_job_completed", "probe_failed")])
    /\ UNCHANGED <<clusterVars, now, nextUid, hist, probe>>

\* The answers of the API server to the delete of the ConfigMap: deleted, or
\* not there, or an error of the server or the transport.
DeleteAnswers ==
    (IF hackCM THEN {"200"} ELSE {"404"}) \cup {"500", "transport"}

\* A variant that takes a 404 for an error like any other.
ignore_not_found_strict(res) ==
    IF res = "200" THEN "Ok" ELSE "Err"

\* The or_else of delete_cleanup_hack_configmap: Ok for a deleted ConfigMap
\* and for a 404, Err for every other answer.
ignore_not_found(res) ==
    IF res \in {"200", "404"} THEN "Ok" ELSE "Err"

\* delete_cleanup_hack_configmap: the ConfigMap is deleted and
\* reconcile_delete returns with the outcome.
DeleteHackConfigmap(w) ==
    /\ loc[w].pc = "delete_hack_configmap"
    /\ \E res \in DeleteAnswers :
        /\ hackCM' = IF res = "200" THEN FALSE ELSE hackCM
        /\ IF ignore_not_found(res) = "Ok"
           THEN Step(w, [loc[w] EXCEPT !.pc = "remove_finalizer",
                   !.did = Did(w, "delete", cleanup_hack_resource_name(Name),
                               IF res = "200" THEN "deleted" ELSE res)])
           ELSE Returns(w, Err("KubeError"),
                   Did(w, "refused", cleanup_hack_resource_name(Name), res))
    /\ UNCHANGED <<inst, status, jobs, rbac, now, nextUid, hist, probe>>

\* finalizer() after a successful Cleanup: the finalizer is removed, and the
\* API server then drops the object, which was only waiting for that.
RemoveFinalizer(w) ==
    /\ loc[w].pc = "remove_finalizer"
    /\ IF inst.exists /\ KUBIT_FINALIZER \in inst.finalizers
       THEN /\ inst' = [inst EXCEPT !.finalizers = @ \ {KUBIT_FINALIZER},
                                    !.exists = ~inst.deleting]
            /\ Returns(w, AwaitChange, Did(w, "patch", "finalizers", "remove"))
       ELSE /\ Returns(w, Err("RemoveFinalizer"), loc[w].did)
            /\ UNCHANGED inst
    /\ hist' = NoHist
    /\ UNCHANGED <<status, jobs, rbac, hackCM, now, nextUid, probe>>

\* The API calls of launch_job before the create.
LaunchPcs == RbacPcs \cup {"fetch_package_config"}

ApiPcs ==
    LaunchPcs \cup {"add_finalizer", "reconciliation_state", "status_read",
                    "status_write", "capture_logs", "delete_job",
                    "delete_get_apply", "delete_get_cleanup",
                    "remove_finalizer"}

\* The API call the handler is about to make fails (server or network): the
\* error goes where the handler's ? or match sends it.
Fail(w) ==
    /\ loc[w].pc \in ApiPcs
    /\ IF loc[w].pc \in LaunchPcs /\ ~loc[w].obj.deleting
       THEN LaunchFailed(w, IF loc[w].pc = "fetch_package_config"
                            THEN "OCI" ELSE "KubeError", loc[w].did)
       ELSE Returns(w, Err(CASE loc[w].pc = "add_finalizer" -> "AddFinalizer"
                             [] loc[w].pc = "remove_finalizer" -> "RemoveFinalizer"
                             [] OTHER -> "KubeError"),
                    loc[w].did)
    /\ hist' = NoHist
    /\ UNCHANGED <<clusterVars, now, nextUid, probe>>

\* Errors that come from the API server or the network, not from the objects.
TransientErrors ==
    {"KubeError", "OCI", "AddFinalizer", "RemoveFinalizer",
     "ResourceDeletionTimeout"}

\* The controller runtime takes the result; the call's locals are dropped.
TakeResult(w) ==
    /\ loc[w].pc = "done"
    /\ loc' = [loc EXCEPT ![w] = Resting]
    /\ hist' = IF loc[w].st.kind \in {"Idle", "Executing", "JobTerminated"}
               THEN IF \/ loc[w].ret.err \in TransientErrors
                       \/ loc[w].ret = Panic
                       \/ ~hist.clean
                    THEN NoHist
                    ELSE [valid |-> TRUE, kind |-> loc[w].st.kind,
                          end |-> Cluster, clean |-> FALSE]
               ELSE IF loc[w].did = <<>> THEN hist ELSE NoHist
    /\ UNCHANGED <<clusterVars, now, nextUid>>

Return(w) == TakeResult(w) /\ UNCHANGED probe

\* ------------------------------------------------------------ environment

ContainerStatus(name, state, exit, log) ==
    [name |-> name, state |-> state, exit |-> exit, log |-> log]

\* The pod of an apply Job that ran to completion.
SucceededPods ==
    << << ContainerStatus("fetch-app-instance", "terminated", 0, <<"fetched">>),
          ContainerStatus("render-manifests", "terminated", 0, <<"rendered">>),
          ContainerStatus("apply-manifests", "terminated", 0, <<"applied">>) >> >>

\* The pods of an apply Job that failed: in rendering, or in applying.
FailedPodChoices ==
    { << << ContainerStatus("fetch-app-instance", "terminated", 0, <<"fetched">>),
            ContainerStatus("render-manifests", "terminated", 1,
                            <<"line1", "line2", "line3">>),
            ContainerStatus("apply-manifests", "waiting", 0, <<>>) >> >>,
      << << ContainerStatus("fetch-app-instance", "terminated", 0, <<"fetched">>),
            ContainerStatus("render-manifests", "terminated", 0, <<"rendered">>),
            ContainerStatus("apply-manifests", "terminated", 2, <<"boom">>) >> >> }

JobCondition(type_, status_) == [type |-> type_, status |-> status_]

\* The Job controller runs the apply Job to Complete or to Failed.
JobRuns ==
    /\ \E j \in jobs :
        /\ j.kind = "apply" /\ j.conds = <<>> /\ ~j.deleting
        /\ \/ jobs' = (jobs \ {j}) \cup
                 {[j EXCEPT !.conds = <<JobCondition("Complete", "True")>>,
                            !.pods = SucceededPods]}
           \/ \E pods \in FailedPodChoices :
                 jobs' = (jobs \ {j}) \cup
                     {[j EXCEPT !.conds = <<JobCondition("Failed", "True")>>,
                                !.pods = pods]}
    /\ hist' = NoHist
    /\ UNCHANGED <<inst, status, rbac, hackCM, now, nextUid, loc, probe>>

\* The cleanup Job runs: its kubectl apply --prune leaves the placeholder
\* ConfigMap demo-cleanup behind when it completes.
CleanupJobRuns ==
    /\ \E j \in jobs :
        /\ j.kind = "cleanup" /\ j.conds = <<>> /\ ~j.deleting
        /\ \/ /\ jobs' = (jobs \ {j}) \cup
                    {[j EXCEPT !.conds = <<JobCondition("Complete", "True")>>]}
              /\ hackCM' = TRUE
           \/ /\ jobs' = (jobs \ {j}) \cup
                    {[j EXCEPT !.conds = <<JobCondition("Failed", "True")>>]}
              /\ UNCHANGED hackCM
    /\ hist' = NoHist
    /\ UNCHANGED <<inst, status, rbac, now, nextUid, loc, probe>>

\* The garbage collector finishes a foreground deletion.
CollectJob ==
    /\ \E j \in jobs : j.deleting /\ jobs' = jobs \ {j}
    /\ UNCHANGED <<inst, status, rbac, hackCM, now, nextUid, loc, hist, probe>>

\* A user flips spec.pause.
FlipPause ==
    /\ inst.exists
    /\ inst' = [inst EXCEPT !.pause = ~@]
    /\ hist' = NoHist
    /\ UNCHANGED <<status, jobs, rbac, hackCM, now, nextUid, loc, probe>>

\* A user deletes the instance: it goes at once without finalizers, and is
\* marked for deletion with them.
UserDelete ==
    /\ inst.exists /\ ~inst.deleting
    /\ inst' = IF inst.finalizers = {} THEN [inst EXCEPT !.exists = FALSE]
               ELSE [inst EXCEPT !.deleting = TRUE]
    /\ hist' = NoHist
    /\ UNCHANGED <<status, jobs, rbac, hackCM, now, nextUid, loc, probe>>

\* Once the instance is gone, the objects it owns are collected.
CollectOwned ==
    /\ ~inst.exists /\ (jobs # {} \/ rbac # {})
    /\ jobs' = {} /\ rbac' = {}
    /\ hist' = NoHist
    /\ UNCHANGED <<inst, status, hackCM, now, nextUid, loc, probe>>

Environment ==
    \/ JobRuns
    \/ CleanupJobRuns
    \/ CollectJob
    \/ FlipPause
    \/ UserDelete
    \/ CollectOwned

\* One step of a reconcile call on its apply side, every API call answering.
ProceedApply(w) ==
    \/ AddFinalizer(w)
    \/ ReconciliationState(w)
    \/ ApplyRbac(w)
    \/ FetchPackageConfig(w)
    \/ CreateJob(w)
    \/ StatusRead(w)
    \/ StatusWrite(w)
    \/ CaptureLogs(w)
    \/ DeleteJob(w)
    \/ Return(w)

\* One step of reconcile_delete, every API call answering.
ProceedDelete(w) ==
    \/ DeleteGetApply(w)
    \/ AwaitDeleted(w)
    \/ DeleteGetCleanup(w)
    \/ LaunchCleanupJob(w)
    \/ AwaitCompleted(w)
    \/ DeleteHackConfigmap(w)
    \/ RemoveFinalizer(w)

\* The controller runtime's scheduling: one reconcile of the instance at a
\* time, against an API server whose calls may fail.
Next ==
    \/ \E w \in Workers : Start(w, TRUE)
    \/ \E w \in Workers : ProceedApply(w)
    \/ \E w \in Workers : ProceedDelete(w)
    \/ \E w \in Workers : Fail(w)
    \/ Environment

Spec == Init /\ [][Next]_vars

\* Two controller processes, one per mode, each scheduling on its own, so
\* that their reconcile calls for a live instance may overlap.
NextConc ==
    \/ \E w \in Workers : Start(w, FALSE)
    \/ \E w \in Workers : ProceedApply(w)
    \/ JobRuns
    \/ CollectJob
    \/ FlipPause

\* The overlap is explored for an instance without pull secrets.
InitConc == Init /\ inst.secrets = "none"

SpecConc == InitConc /\ [][NextConc]_vars

\* The same two controllers for an instance that is new or that already
\* holds the finalizer from an earlier reconcile.
InitRace ==
    /\ inst \in [exists : {TRUE}, finalizers : {{}, {KUBIT_FINALIZER}},
                 deleting : {FALSE}, pause : {FALSE}, secrets : {"none"}]
    /\ status = NoStatus
    /\ jobs = {}
    /\ rbac = {}
    /\ hackCM = FALSE
    /\ now = 0
    /\ nextUid = 0
    /\ loc = [w \in Workers |-> Resting]
    /\ hist = NoHist
    /\ probe = NoProbe

SpecRace == InitRace /\ [][NextConc]_vars

\* The classifier alone, on every Job shape with up to MaxConds conditions:
\* the Job kubit-apply-demo as the API server may hold it, whoever made it.
ConditionLists ==
    UNION {[1..n -> [type : {"Complete", "Failed"}, status : {"True", "False"}]] :
              n \in 0..MaxConds}

JobShapes ==
    {[NewJob("apply", uid, "none") EXCEPT !.conds = conds, !.label = label] :
        uid \in 1..2, conds \in ConditionLists, label \in BOOLEAN}

InitClassify ==
    /\ inst = [exists |-> TRUE, finalizers |-> {KUBIT_FINALIZER},
               deleting |-> FALSE, pause |-> FALSE, secrets |-> "none"]
    /\ status = NoStatus
    /\ jobs \in {{}} \cup {{j} : j \in JobShapes}
    /\ rbac = {}
    /\ hackCM = FALSE
    /\ now = 0
    /\ nextUid = 2
    /\ loc = [w \in Workers |-> Resting]
    /\ hist = NoHist
    /\ probe = NoProbe

\* reconciliation_state: get_opt of the apply Job, then the classification.
Classify ==
    /\ probe = NoProbe
    /\ probe' = [job |-> get_opt(job_name_for("apply")),
                 state |-> reconciliation_state(get_opt(job_name_for("apply")))]
    /\ UNCHANGED <<clusterVars, now, nextUid, loc, hist>>

NextClassify == Classify

SpecClassify == InitClassify /\ [][NextClassify]_vars

\* update_condition_vec alone, called again and again on a list that starts
\* empty.  Utc::now() reads the wall clock, which is not monotonic: each call
\* may read any time.
NoCall ==
    [before |-> <<>>, call |-> Condition("-", "-", "-", "-", 0)]

InitCond ==
    /\ inst = [exists |-> TRUE, finalizers |-> {KUBIT_FINALIZER},
               deleting |-> FALSE, pause |-> FALSE, secrets |-> "none"]
    /\ status = NoStatus
    /\ jobs = {}
    /\ rbac = {}
    /\ hackCM = FALSE
    /\ now = 0
    /\ nextUid = 0
    /\ loc = [w \in Workers |-> Resting]
    /\ hist = NoHist
    /\ probe = NoCall

\* One call update_condition_vec(&mut conditions, type_, status, reason,
\* message) at wall-clock time t.
UpdateConditionVec ==
    \E type_ \in {"Reconcilier", "Ready"}, status_ \in {"True", "False"},
       reason \in {"Failed", "Succeeded"}, message \in {"", "boom"},
       t \in 0..MaxTime :
        /\ now' = t
        /\ probe' = [before |-> status.conditions,
                     call |-> Condition(type_, status_, reason, message, t)]
        /\ status' = [status EXCEPT !.conditions =
                         update_condition_vec(@, type_, status_, reason,
                                              message, t)]
        /\ UNCHANGED <<inst, jobs, rbac, hackCM, nextUid, loc, hist>>

NextCond == UpdateConditionVec

SpecCond == InitCond /\ [][NextCond]_vars

\* ------------------------------------------------- carriers and error policy

\* Action::requeue(Duration::from_secs(5)) of the error policies and of
\* reconcile_config_map for a ConfigMap of another name.
REQUEUE_AFTER_ERROR == 5

\* The error values reconcile hands back (finalizer() wraps those of
\* reconcile_apply and reconcile_delete, and its own, in FinalizerError).
LaunchErrorKinds ==
    {"KubeError", "OCI", "NamespaceRequired",
     "UnsupportedMultipleImagePullSecrets", "BadImagePullSecretType",
     "NoDockerConfigJsonInImagePullSecret", "DecodeDockerConfig"}

StatusErrorKinds == {"KubeError", "InvalidConfigMapStatus"}

\* A variant that retries a failed deletion wait after the Job-failure delay.
error_policy_app_instance_slow(error) ==
    IF error = "ResourceDeletionTimeout" THEN Requeue(RETRY_AFTER_JOB_FAILURE)
    ELSE Requeue(REQUEUE_AFTER_ERROR)

\* error_policy_app_instance: every error is a requeue after 5 s.
error_policy_app_instance(error) == Requeue(REQUEUE_AFTER_ERROR)

\* error_policy_config_map: data.as_ref().unwrap()["app-instance"] panics
\* for a ConfigMap without data or without the key; a text that is not an
\* AppInstance is a requeue after 5 s too.
error_policy_config_map(data, error) ==
    IF data \in {"none", "no_key"} THEN Panic
    ELSE IF data = "valid" THEN error_policy_app_instance(error)
    ELSE Requeue(REQUEUE_AFTER_ERROR)

\* AppInstanceLike::from_config_map(cm, "app-instance"): config[key] panics
\* for a missing key.
from_config_map(data) ==
    CASE data = "none"     -> Err("InvalidConfigMap")
      [] data = "no_key"   -> Panic
      [] data = "bad_yaml" -> Err("InvalidConfigMap")
      [] data = "valid"    -> NoResult

\* What reconcile_apply hands back for the apply Job it finds: job is
\* "none", "unlabelled" (no controller-uid label), "executing", "complete"
\* or "failed"; pod_status tells whether the Job's pod has a status.
ReconcileApplyResults(job, pod_status) ==
    {Err("KubeError")} \cup
    CASE job = "none" ->
            {AwaitChange} \cup {Err(e) : e \in LaunchErrorKinds \cup StatusErrorKinds}
      [] job = "unlabelled" -> {Panic}
      [] job = "executing" -> {AwaitChange}
      [] job \in {"complete", "failed"} ->
            {Err("NamespaceRequired")} \cup
            IF ~pod_status THEN {Panic}
            ELSE {Err(e) : e \in StatusErrorKinds} \cup
                 {IF job = "failed" THEN Requeue(RETRY_AFTER_JOB_FAILURE)
                  ELSE AwaitChange}

\* What reconcile_delete hands back.
ReconcileDeleteResults ==
    {AwaitChange, Err("KubeError"), Err("ResourceDeletionTimeout"),
     Err("UnsupportedMultipleImagePullSecrets"), Err("NamespaceRequired")}

\* What reconcile hands back for an instance: nothing is done when the pause
\* flag does not match the mode; finalizer() may fail on its own patches.
ReconcileResults(obj) ==
    IF obj.pause # obj.only_paused THEN {AwaitChange}
    ELSE {Err("KubeError")} \cup
         IF ~obj.finalizer
         THEN {AwaitChange}
         ELSE IF obj.deleting THEN ReconcileDeleteResults
         ELSE ReconcileApplyResults(obj.job, obj.pod_status)

\* reconcile_app_instance / reconcile_config_map for the object.
ReconcileCarrier(obj) ==
    IF obj.carrier = "AppInstance" THEN ReconcileResults(obj)
    ELSE IF ~obj.named THEN {Requeue(REQUEUE_AFTER_ERROR)}
    ELSE IF from_config_map(obj.data) # NoResult THEN {from_config_map(obj.data)}
    ELSE ReconcileResults(obj)

\* The objects handed to the controller: an AppInstance, or a ConfigMap that
\* carries the name the controller was started with or another one, and
\* whose data is absent, lacks the key app-instance, holds a text that is
\* not an AppInstance, or holds one.
Carriers ==
    LET instances ==
            [carrier : {"AppInstance"}, named : {TRUE}, data : {"valid"},
             pause : BOOLEAN, only_paused : BOOLEAN, finalizer : BOOLEAN,
             deleting : BOOLEAN,
             job : {"none", "unlabelled", "executing", "complete", "failed"},
             pod_status : BOOLEAN]
        live(o) == /\ o.job \notin {"complete", "failed"} => o.pod_status
                   /\ (o.deleting \/ ~o.finalizer) =>
                         o.job = "none" /\ o.pod_status
    IN  {o \in instances : live(o)}
        \cup {[o EXCEPT !.carrier = "ConfigMap", !.named = n] :
                 o \in {i \in instances : live(i)}, n \in BOOLEAN}
        \cup [carrier : {"ConfigMap"}, named : BOOLEAN,
              data : {"none", "no_key", "bad_yaml"},
              pause : {FALSE}, only_paused : BOOLEAN, finalizer : {FALSE},
              deleting : {FALSE}, job : {"none"}, pod_status : {TRUE}]

InitCarrier ==
    /\ inst = [exists |-> TRUE, finalizers |-> {KUBIT_FINALIZER},
               deleting |-> FALSE, pause |-> FALSE, secrets |-> "none"]
    /\ status = NoStatus
    /\ jobs = {}
    /\ rbac = {}
    /\ hackCM = FALSE
    /\ now = 0
    /\ nextUid = 0
    /\ loc = [w \in Workers |-> Resting]
    /\ hist = NoHist
    /\ probe \in [obj : Carriers, pc : {"queued"}, result : {NoResult},
                  action : {NoResult}]

\* The runtime calls the reconciler for the object.
RunReconcile ==
    /\ probe.pc = "queued"
    /\ \E r \in ReconcileCarrier(probe.obj) :
          probe' = [probe EXCEPT !.pc = "reconciled", !.result = r]
    /\ UNCHANGED <<clusterVars, now, nextUid, loc, hist>>

\* An Ok(action) is scheduled as it is.
ScheduleAction ==
    /\ probe.pc = "reconciled"
    /\ probe.result.kind \in {"await_change", "requeue"}
    /\ probe' = [probe EXCEPT !.pc = "scheduled", !.action = probe.result]
    /\ UNCHANGED <<clusterVars, now, nextUid, loc, hist>>

\* An Err(error) goes to the error policy of the carrier.
ErrorPolicy ==
    /\ probe.pc = "reconciled"
    /\ probe.result.kind = "err"
    /\ LET a == IF probe.obj.carrier = "AppInstance"
                THEN error_policy_app_instance(probe.result.err)
                ELSE error_policy_config_map(probe.obj.data, probe.result.err)
       IN  probe' = [probe EXCEPT
                        !.pc = IF a = Panic THEN "crashed" ELSE "scheduled",
                        !.action = a]
    /\ UNCHANGED <<clusterVars, now, nextUid, loc, hist>>

\* A panic in the reconciler unwinds through Controller::run.
ReconcilePanics ==
    /\ probe.pc = "reconciled"
    /\ probe.result = Panic
    /\ probe' = [probe EXCEPT !.pc = "crashed", !.action = Panic]
    /\ UNCHANGED <<clusterVars, now, nextUid, loc, hist>>

NextCarrier ==
    \/ RunReconcile
    \/ ScheduleAction
    \/ ErrorPolicy
    \/ ReconcilePanics

SpecCarrier == InitCarrier /\ [][NextCarrier]_vars

\* ------------------------------------------------------ requeues and events

\* What the runtime holds for each controller: the action scheduled for the
\* instance, the result and the delivered object of the last call, what the
\* watches had shown when the last call began, and what began it.
NoSchedule ==
    [action |-> NoResult, prev |-> NoResult, prevobj |-> NoInst,
     seen |-> <<NoInst, NoStatus, {}>>, trigger |-> "-"]

InitRetry ==
    /\ inst \in [exists : {TRUE}, finalizers : {{}}, deleting : {FALSE},
                 pause : {FALSE}, secrets : SecretChoices]
    /\ status = NoStatus
    /\ jobs = {}
    /\ rbac = {}
    /\ hackCM = FALSE
    /\ now = 0
    /\ nextUid = 0
    /\ loc = [w \in Workers |-> Resting]
    /\ hist = NoHist
    /\ probe = [w \in Workers |-> NoSchedule]

\* The runtime calls reconcile because the scheduled requeue came due, or
\* because the watches on the instance and on its Jobs showed a change.
StartRetry(w) ==
    \E trigger \in {"requeue", "watch"} :
        /\ trigger = "requeue" => probe[w].action.kind = "requeue"
        /\ trigger = "watch" => probe[w].seen # <<inst, status, jobs>>
        /\ now < MaxClock
        /\ StartAt(w, TRUE, now + 1)
        /\ probe' = [probe EXCEPT ![w].trigger = trigger,
                                  ![w].action = NoResult,
                                  ![w].seen = <<inst, status, jobs>>]

\* The runtime schedules the action reconcile returned, or the one the
\* error policy makes of its error.
ReturnRetry(w) ==
    /\ TakeResult(w)
    /\ probe' = [probe EXCEPT
          ![w].action = IF loc[w].ret.kind = "err"
                        THEN error_policy_app_instance(loc[w].ret.err)
                        ELSE loc[w].ret,
          ![w].prev = loc[w].ret,
          ![w].prevobj = loc[w].obj]

\* One step of reconcile_apply short of its return.
ProceedRetry(w) ==
    \/ AddFinalizer(w)
    \/ ReconciliationState(w)
    \/ ApplyRbac(w)
    \/ FetchPackageConfig(w)
    \/ CreateJob(w)
    \/ StatusRead(w)
    \/ StatusWrite(w)
    \/ CaptureLogs(w)
    \/ DeleteJob(w)

\* One controller per mode, requeues and watch events, for an instance that
\* is not paused, not deleted and whose spec nobody changes.
NextRetry ==
    \/ \E w \in Workers : StartRetry(w)
    \/ \E w \in Workers : ProceedRetry(w)
    \/ \E w \in Workers : ReturnRetry(w)
    \/ \E w \in Workers : Fail(w)
    \/ JobRuns
    \/ CollectJob

SpecRetry == InitRetry /\ [][NextRetry]_vars

\* The controller of the instance's mode alone, every API call of reconcile
\* answering (a jobs.create may still be refused).
NextRetryLive ==
    \/ StartRetry("normal")
    \/ ProceedRetry("normal")
    \/ ReturnRetry("normal")
    \/ JobRuns
    \/ CollectJob

\* The runtime, the Job controller and the garbage collector keep running:
\* whatever can happen next does not wait for ever.
SpecRetryLive ==
    /\ InitRetry
    /\ [][NextRetryLive]_vars
    /\ WF_vars(NextRetryLive)

\* ------------------------------------------------------- capture_logs alone

\* The first k lines a container wrote.
LogLines(name, k) ==
    [i \in 1..k |-> (IF name = "render-manifests" THEN "line" ELSE "applied")
                        \o ToString(i)]

\* The statuses a container can show: no state, waiting, running, or
\* terminated with an exit code (an int32); only a started container has
\* written lines.
ContainerStatuses(name) ==
    {ContainerStatus(name, s, 0, <<>>) : s \in {"none", "waiting"}}
        \cup {ContainerStatus(name, "running", 0, LogLines(name, k)) :
                 k \in 0..MaxLines}
        \cup {ContainerStatus(name, "terminated", e, LogLines(name, k)) :
                 e \in {-1, 0, 1}, k \in 0..MaxLines}

\* The pods pods_api.list can return for a terminated Job: one pod with one
\* or two containers, or two pods of one container each.
PodLists ==
    LET names == {"render-manifests", "apply-manifests"}
        one   == UNION {ContainerStatuses(n) : n \in names}
    IN  {<< <<c>> >> : c \in one}
        \cup {<< <<c, d>> >> : c \in ContainerStatuses("render-manifests"),
                               d \in ContainerStatuses("apply-manifests")}
        \cup {<< <<c>>, <<d>> >> : c \in one, d \in one}

NoCapture == [pods |-> <<>>, done |-> FALSE, summary |-> "", last_logs |-> {}]

InitLogs ==
    /\ inst = [exists |-> TRUE, finalizers |-> {KUBIT_FINALIZER},
               deleting |-> FALSE, pause |-> FALSE, secrets |-> "none"]
    /\ status = NoStatus
    /\ jobs = {}
    /\ rbac = {}
    /\ hackCM = FALSE
    /\ now = 0
    /\ nextUid = 0
    /\ loc = [w \in Workers |-> Resting]
    /\ hist = NoHist
    /\ probe \in {[NoCapture EXCEPT !.pods = p] : p \in PodLists}

\* capture_logs over the listed pods, every logs call answering: the summary
\* it returns and the lastLogs it writes.
CaptureLogsOf ==
    /\ ~probe.done
    /\ probe' = [probe EXCEPT !.done = TRUE,
                              !.summary = log_summary(probe.pods),
                              !.last_logs = per_container_logs(probe.pods)]
    /\ status' = [status EXCEPT !.last_logs = per_container_logs(probe.pods),
                                !.has_logs = TRUE]
    /\ UNCHANGED <<inst, jobs, rbac, hackCM, now, nextUid, loc, hist>>

NextLogs == CaptureLogsOf

SpecLogs == InitLogs /\ [][NextLogs]_vars

\* ------------------------------------------------------- status round trip

\* A reading of Utc::now() as a condition holds it in memory: whole seconds
\* and the fraction of a second, in milliseconds.
Times == [secs : 0..MaxTime, millis : {0, 500}]

\* Time's Serialize: RFC 3339 with whole seconds; the fraction is not written.
SerializeTime(t) == "1970-01-01T00:00:0" \o ToString(t.secs) \o "Z"

\* RFC 3339 with the fraction, a text that Time's Deserialize accepts as well.
Rfc3339WithFraction(t) ==
    "1970-01-01T00:00:0" \o ToString(t.secs) \o "." \o ToString(t.millis) \o "Z"

\* Time's Deserialize: the reading that a text stands for.
DeserializeTime(text) ==
    CHOOSE t \in Times :
        text \in {SerializeTime(t), Rfc3339WithFraction(t)}
            /\ (text = SerializeTime(t) => t.millis = 0)

\* AppInstanceCondition's Serialize, camelCase; observed_generation is None
\* in every condition the controller builds.
SerializeCondition(c) ==
    [lastTransitionTime |-> SerializeTime(c.last_transition_time),
     message |-> c.message, observedGeneration |-> "null",
     reason |-> c.reason, status |-> c.status, type |-> c.type]

DeserializeCondition(j) ==
    Condition(j.type, j.status, j.reason, j.message,
              DeserializeTime(j.lastTransitionTime))

\* AppInstanceStatus's Serialize: lastLogs is always written, null for None;
\* conditions is left out when the list is empty.
SerializeStatus(s) ==
    LET logs  == [null |-> ~s.has_logs, map |-> s.last_logs]
        conds == [i \in 1..Len(s.conditions) |->
                     SerializeCondition(s.conditions[i])]
    IN  IF s.conditions = <<>> THEN [lastLogs |-> logs]
        ELSE [lastLogs |-> logs, conditions |-> conds]

\* AppInstanceStatus's Deserialize: a missing conditions is the empty list, a
\* missing or null lastLogs is None.
DeserializeStatus(j) ==
    LET logs == "lastLogs" \in DOMAIN j /\ ~j.lastLogs.null
    IN  [conditions |-> IF "conditions" \in DOMAIN j
                        THEN [i \in 1..Len(j.conditions) |->
                                 DeserializeCondition(j.conditions[i])]
                        ELSE <<>>,
         last_logs  |-> IF logs THEN j.lastLogs.map ELSE {},
         has_logs   |-> logs]

\* What a status read gives: a status or an error.
StatusOk(s) == [err |-> "-", status |-> s]

StatusErr(e) == [err |-> e, status |-> NoStatus]

\* The stored carrier: an AppInstance with or without a status, or a
\* ConfigMap with or without data, with or without the key status, whose
\* text is the JSON of a status or not.
Carrier(kind, has_data, has_status, valid, json) ==
    [kind |-> kind, has_data |-> has_data, has_status |-> has_status,
     valid |-> valid, json |-> json]

\* A variant that refuses a ConfigMap without the key status.
old_status_strict(obj) ==
    IF obj.kind = "AppInstance"
    THEN IF obj.has_status THEN StatusOk(DeserializeStatus(obj.json))
         ELSE StatusOk(NoStatus)
    ELSE IF ~obj.has_data \/ ~obj.has_status \/ ~obj.valid
         THEN StatusErr("InvalidConfigMapStatus")
         ELSE StatusOk(DeserializeStatus(obj.json))

\* old_status: get_status().status.unwrap_or_default() for the AppInstance,
\* serde_json::from_str of data["status"] for the ConfigMap.
old_status(obj) ==
    IF obj.kind = "AppInstance"
    THEN IF obj.has_status THEN StatusOk(DeserializeStatus(obj.json))
         ELSE StatusOk(NoStatus)
    ELSE IF ~obj.has_data THEN StatusOk(NoStatus)
         ELSE IF ~obj.has_status THEN StatusOk(NoStatus)
         ELSE IF ~obj.valid THEN StatusErr("InvalidConfigMapStatus")
         ELSE StatusOk(DeserializeStatus(obj.json))

\* update_status: the forced apply-patch of the status subresource, or of
\* data.status with the JSON text of the status.
update_status(obj, s) ==
    Carrier(obj.kind, TRUE, TRUE, TRUE, SerializeStatus(s))

\* The conditions update_condition_vec can have built, stamped with readings
\* of the clock.
StampedConditions(type_) ==
    {Condition(type_, st, "Reason", m, t) :
        st \in {"True", "False"}, m \in {"", "boom"}, t \in Times}

\* The statuses handed to update_status: at most one condition per type, in
\* either order, lastLogs None, empty or with one container.
Statuses ==
    LET lists == {<<>>}
                   \cup {<<c>> : c \in StampedConditions("Reconcilier")
                                        \cup StampedConditions("Ready")}
                   \cup {<<c, d>> : c \in StampedConditions("Reconcilier"),
                                    d \in StampedConditions("Ready")}
                   \cup {<<d, c>> : c \in StampedConditions("Reconcilier"),
                                    d \in StampedConditions("Ready")}
        logs  == {[has |-> FALSE, map |-> {}], [has |-> TRUE, map |-> {}],
                  [has |-> TRUE, map |-> {<<"render-manifests", "line1">>}]}
    IN  {[conditions |-> l, last_logs |-> g.map, has_logs |-> g.has] :
            l \in lists, g \in logs}

\* The carriers as stored before the write.
StoredCarriers ==
    LET old == SerializeStatus([NoStatus EXCEPT !.conditions =
                  <<Condition("Ready", "True", "Old", "", [secs |-> 0, millis |-> 0])>>])
    IN  {Carrier("AppInstance", TRUE, FALSE, TRUE, SerializeStatus(NoStatus)),
         Carrier("AppInstance", TRUE, TRUE, TRUE, old),
         Carrier("ConfigMap", FALSE, FALSE, TRUE, SerializeStatus(NoStatus)),
         Carrier("ConfigMap", TRUE, FALSE, TRUE, SerializeStatus(NoStatus)),
         Carrier("ConfigMap", TRUE, TRUE, FALSE, SerializeStatus(NoStatus)),
         Carrier("ConfigMap", TRUE, TRUE, TRUE, old)}

InitStatus ==
    /\ inst = [exists |-> TRUE, finalizers |-> {KUBIT_FINALIZER},
               deleting |-> FALSE, pause |-> FALSE, secrets |-> "none"]
    /\ status = NoStatus
    /\ jobs = {}
    /\ rbac = {}
    /\ hackCM = FALSE
    /\ now = 0
    /\ nextUid = 0
    /\ loc = [w \in Workers |-> Resting]
    /\ hist = NoHist
    /\ probe \in [obj : StoredCarriers, s : Statuses, pc : {"fresh"},
                  read : {StatusOk(NoStatus)}]

\* old_status on the carrier as stored.
OldStatus ==
    /\ probe.pc \in {"fresh", "written", "refused"}
    /\ probe' = [probe EXCEPT !.read = old_status(probe.obj),
                              !.pc = CASE probe.pc = "fresh" -> "read_fresh"
                                       [] probe.pc = "written" -> "read_back"
                                       [] probe.pc = "refused" -> "read_old"]
    /\ UNCHANGED <<clusterVars, now, nextUid, loc, hist>>

\* update_status(s) succeeds.
UpdateStatus ==
    /\ probe.pc \in {"fresh", "read_fresh"}
    /\ probe' = [probe EXCEPT !.obj = update_status(probe.obj, probe.s),
                              !.pc = "written"]
    /\ UNCHANGED <<clusterVars, now, nextUid, loc, hist>>

\* update_status(s) fails: the API server refused the patch.
UpdateStatusRefused ==
    /\ probe.pc \in {"fresh", "read_fresh"}
    /\ probe' = [probe EXCEPT !.pc = "refused"]
    /\ UNCHANGED <<clusterVars, now, nextUid, loc, hist>>

NextStatus == OldStatus \/ UpdateStatus \/ UpdateStatusRefused

SpecStatus == InitStatus /\ [][NextStatus]_vars

\* --------------------------------------------------- credential resolution

\* RegistryAuth, or the error of the resolution.
Anonymous == [kind |-> "Anonymous", username |-> "", password |-> "", err |-> "-"]

Basic(username, password) ==
    [kind |-> "Basic", username |-> username, password |-> password, err |-> "-"]

AuthErr(e) == [kind |-> "Err", username |-> "", password |-> "", err |-> e]

\* The auth texts of the docker configs considered, and what
\* general_purpose::STANDARD.decode and String::from_utf8 make of each: the
\* decoded text as a list of pieces, or no text for an input that is not
\* base64.
AuthTexts == {"Zm9vOmh1bnRlcjEy", "Zm9v", "YTpiOmM=", "Og==", "%%%"}

decode(auth) ==
    CASE auth = "Zm9vOmh1bnRlcjEy" -> [ok |-> TRUE, text |-> <<"foo", ":", "hunter12">>]
      [] auth = "Zm9v" -> [ok |-> TRUE, text |-> <<"foo">>]
      [] auth = "YTpiOmM=" -> [ok |-> TRUE, text |-> <<"a", ":", "b", ":", "c">>]
      [] auth = "Og==" -> [ok |-> TRUE, text |-> <<":">>]
      [] OTHER -> [ok |-> FALSE, text |-> <<>>]

RECURSIVE Concat(_)
Concat(pieces) ==
    IF pieces = <<>> THEN "" ELSE Head(pieces) \o Concat(Tail(pieces))

\* A variant that splits at the last colon.
split_once_last(text) ==
    LET colons == {i \in 1..Len(text) : text[i] = ":"}
    IN  IF colons = {} THEN [found |-> FALSE, before |-> "", after |-> ""]
        ELSE LET i == CHOOSE k \in colons : \A m \in colons : k >= m
             IN  [found |-> TRUE, before |-> Concat(SubSeq(text, 1, i - 1)),
                  after |-> Concat(SubSeq(text, i + 1, Len(text)))]

\* str::split_once(':'): the text before and after the first colon.
split_once(text) ==
    LET colons == {i \in 1..Len(text) : text[i] = ":"}
    IN  IF colons = {} THEN [found |-> FALSE, before |-> "", after |-> ""]
        ELSE LET i == CHOOSE k \in colons : \A m \in colons : k <= m
             IN  [found |-> TRUE, before |-> Concat(SubSeq(text, 1, i - 1)),
                  after |-> Concat(SubSeq(text, i + 1, Len(text)))]

\* An entry of auths as the JSON holds it: the fields present, and the auth
\* text when there is one.  The username is bar and the password secret.
AuthEntries ==
    {[fields |-> f, auth |-> "-"] : f \in SUBSET {"username", "password"}}
        \cup {[fields |-> f \cup {"auth"}, auth |-> a] :
                 f \in SUBSET {"username", "password"}, a \in AuthTexts}

\* DockerCredentials' untagged Deserialize: Split when username and password
\* are there, else Composite when auth is there, else no variant matches.
CredentialsForm(entry) ==
    IF {"username", "password"} \subseteq entry.fields THEN "Split"
    ELSE IF "auth" \in entry.fields THEN "Composite"
    ELSE "Unmatched"

\* DockerCredentials::unpack.
unpack(entry) ==
    IF CredentialsForm(entry) = "Split" THEN Basic("bar", "secret")
    ELSE LET bytes == decode(entry.auth)
             parts == split_once(bytes.text)
         IN  IF ~bytes.ok THEN AuthErr("Base64Decode")
             ELSE IF ~parts.found THEN AuthErr("MissingColon")
             ELSE Basic(parts.before, parts.after)

Registries == {"us-docker.pkg.dev", "ghcr.io"}

\* The content of .dockerconfigjson: a text that is no JSON, or auths with
\* an entry for some of the registries.
DockerConfigs ==
    {[json |-> FALSE, auths |-> <<>>]}
        \cup {[json |-> TRUE, auths |-> a] :
                 a \in UNION {[rs -> AuthEntries] : rs \in SUBSET Registries}}

\* DockerConfig::from_slice: the text parses when it is JSON and every entry
\* of auths matches a variant of DockerCredentials.
from_slice(config) ==
    /\ config.json
    /\ \A r \in DOMAIN config.auths : CredentialsForm(config.auths[r]) # "Unmatched"

\* DockerConfig::get_auth.
get_auth(config, registry) ==
    IF registry \notin DOMAIN config.auths THEN Anonymous
    ELSE LET auth == unpack(config.auths[registry])
         IN  IF auth.kind = "Err" THEN AuthErr("DecodeDockerConfig:" \o auth.err)
             ELSE auth

\* The Secret that spec.imagePullSecrets names.
PullSecrets ==
    [type : {"kubernetes.io/dockerconfigjson", "Opaque", "none"},
     has_key : BOOLEAN, config : DockerConfigs]

\* The registry of spec.package.image, or none for an image that is no
\* reference.
ImageRegistries == Registries \cup {"invalid"}

\* get_image_pull_secrets once secrets.get has answered.
get_image_pull_secrets(secrets, secret, registry) ==
    IF secrets \in {"none", "empty"} THEN Anonymous
    ELSE IF secrets = "two" THEN AuthErr("UnsupportedMultipleImagePullSecrets")
    ELSE IF secret.type # "kubernetes.io/dockerconfigjson"
         THEN AuthErr("BadImagePullSecretType")
    ELSE IF ~secret.has_key THEN AuthErr("NoDockerConfigJsonInImagePullSecret")
    ELSE IF ~from_slice(secret.config)
         THEN AuthErr("DecodeDockerConfig:Deserializing")
    ELSE IF registry = "invalid" THEN AuthErr("OCIParseError")
    ELSE get_auth(secret.config, registry)

NoAuth == [kind |-> "-", username |-> "", password |-> "", err |-> "-"]

InitCreds ==
    /\ inst \in [exists : {TRUE}, finalizers : {{KUBIT_FINALIZER}},
                 deleting : {FALSE}, pause : {FALSE}, secrets : SecretChoices]
    /\ status = NoStatus
    /\ jobs = {}
    /\ rbac = {}
    /\ hackCM = FALSE
    /\ now = 0
    /\ nextUid = 0
    /\ loc = [w \in Workers |-> Resting]
    /\ hist = NoHist
    /\ probe \in [secret : PullSecrets, registry : ImageRegistries,
                  auth : {NoAuth}]

\* get_image_pull_secrets, secrets.get answering.
ResolveCredentials ==
    /\ probe.auth = NoAuth
    /\ probe' = [probe EXCEPT !.auth =
                    get_image_pull_secrets(inst.secrets, probe.secret,
                                           probe.registry)]
    /\ UNCHANGED <<clusterVars, now, nextUid, loc, hist>>

\* get_image_pull_secrets when secrets.get fails.
SecretGetFails ==
    /\ probe.auth = NoAuth
    /\ inst.secrets = "one"
    /\ probe' = [probe EXCEPT !.auth = AuthErr("KubeError")]
    /\ UNCHANGED <<clusterVars, now, nextUid, loc, hist>>

NextCreds == ResolveCredentials \/ SecretGetFails

SpecCreds == InitCreds /\ [][NextCreds]_vars

\* ------------------------------------------------------ shared RBAC objects
\* Several instances provisioned by the same controller.  probe holds
\*   ns      the namespace of each instance,
\*   store   the RBAC objects of the cluster, by kind and namespace,
\*   at      each instance's position in its launch,
\*   last    the instance whose patch reached each object last,
\*   launches, mixed, settled, provisioned   the course of the launches.

Tenants == {"a", "b"}

Namespaces == {"ns1", "ns2"}

FIELD_MANAGER == "kubit"

OwnerRef(t) == [kind |-> "AppInstance", name |-> t, controller |-> TRUE]

IsClusterKind(kind) == \E i \in 1..Len(ClusterRbac) : ClusterRbac[i] = kind

\* Api::namespaced(client, ns) for the three namespaced kinds, Api::all for
\* the two cluster-wide kinds.
SharedKey(kind, ns) == IF IsClusterKind(kind) THEN <<kind, "">> ELSE <<kind, ns>>

SharedKeys ==
    {SharedKey(NamespacedRbac[i], ns) : i \in 1..Len(NamespacedRbac), ns \in Namespaces}
        \cup {SharedKey(ClusterRbac[i], "") : i \in 1..Len(ClusterRbac)}

NoObject == [exists |-> FALSE, name |-> "", manager |-> "", owners |-> {},
             subject_ns |-> ""]

\* The object that setup_namespaced_roles / setup_cluster_roles hand to the
\* patch for instance t of namespace ns.
RbacObject(t, ns, kind) ==
    [exists     |-> TRUE,
     name       |-> IF IsClusterKind(kind)
                    THEN APPLIER_SERVICE_ACCOUNT \o "-crd"
                    ELSE APPLIER_SERVICE_ACCOUNT,
     manager    |-> FIELD_MANAGER,
     owners     |-> {OwnerRef(t)},
     subject_ns |-> IF kind = "ClusterRoleBinding" THEN ns ELSE ""]

\* A patch that merges the owner references into the stored list.
ForcedApply_Merging(old, new) ==
    IF old.exists THEN [new EXCEPT !.owners = old.owners \cup new.owners] ELSE new

\* Patch::Apply with PatchParams::apply("kubit").force(): the fields that the
\* manager applied before and that the new object leaves out are removed, the
\* subjects list is replaced as a whole, conflicts are overridden.  Every
\* writer of these objects is the manager "kubit", so that what is stored
\* afterwards is the object applied.
ForcedApply(old, new) == new

LaunchPlan(kind) ==
    IF kind = "cleanup" THEN NamespacedRbac ELSE NamespacedRbac \o ClusterRbac

NotLaunching == [plan |-> "-", i |-> 0]

InitShared ==
    /\ inst = [exists |-> TRUE, finalizers |-> {KUBIT_FINALIZER},
               deleting |-> FALSE, pause |-> FALSE, secrets |-> "none"]
    /\ status = NoStatus
    /\ jobs = {}
    /\ rbac = {}
    /\ hackCM = FALSE
    /\ now = 0
    /\ nextUid = 0
    /\ loc = [w \in Workers |-> Resting]
    /\ hist = NoHist
    /\ probe \in [ns          : [Tenants -> Namespaces],
                  store       : {[k \in SharedKeys |-> NoObject]},
                  at          : {[t \in Tenants |-> NotLaunching]},
                  last        : {[k \in SharedKeys |-> "-"]},
                  launches    : {0},
                  mixed       : {{}},
                  settled     : {"-"},
                  provisioned : {{}}]

\* launch_job or create_cleanup of instance t begins.
StartLaunch(t) ==
    /\ probe.at[t] = NotLaunching
    /\ probe.launches < MaxLaunches
    /\ \E plan \in {"apply", "cleanup"} :
          probe' = [probe EXCEPT !.at[t] = [plan |-> plan, i |-> 1],
                                 !.launches = @ + 1,
                                 !.mixed = @ \ {t}]
    /\ UNCHANGED <<clusterVars, now, nextUid, loc, hist>>

\* The next patch of instance t's launch is accepted.
ApplyShared(t) ==
    /\ probe.at[t] # NotLaunching
    /\ LET plan   == LaunchPlan(probe.at[t].plan)
           i      == probe.at[t].i
           key    == SharedKey(plan[i], probe.ns[t])
           ended  == i = Len(plan)
           others == {u \in Tenants \ {t} : probe.at[u] # NotLaunching}
           mixed  == probe.mixed \cup others
       IN  probe' =
             [probe EXCEPT
                !.store[key] = ForcedApply(@, RbacObject(t, probe.ns[t], plan[i])),
                !.last[key] = t,
                !.at[t] = IF ended THEN NotLaunching ELSE [@ EXCEPT !.i = i + 1],
                !.mixed = mixed,
                !.settled = IF ended /\ t \notin mixed /\ probe.at[t].plan = "apply"
                            THEN t ELSE "-",
                !.provisioned = IF ended /\ probe.at[t].plan = "apply"
                                THEN @ \cup {t} ELSE @]
    /\ UNCHANGED <<clusterVars, now, nextUid, loc, hist>>

\* The next patch of instance t's launch fails: the launch returns the error.
ApplySharedFails(t) ==
    /\ probe.at[t] # NotLaunching
    /\ probe' = [probe EXCEPT !.at[t] = NotLaunching]
    /\ UNCHANGED <<clusterVars, now, nextUid, loc, hist>>

NextShared ==
    \E t \in Tenants : StartLaunch(t) \/ ApplyShared(t) \/ ApplySharedFails(t)

SpecShared == InitShared /\ [][NextShared]_vars

\* ----------------------------------------------- the ConfigMap that carries
\* ConfigMap mode: the controller was started with config_map_name (or with
\* none) and is handed a ConfigMap of the watched namespace.  probe holds the
\* configured name, the ConfigMap's name and what the runtime did with it;
\* inst, status, jobs, rbac are those of the ConfigMap delivered.

ConfigMapNames == {"kubit", "other"}

NoName == "-"

\* A test that takes every ConfigMap of the namespace once a name is configured.
IsCarrier_AnyName(config_map_name, cm_name) == config_map_name # NoName

\* config_map_name.as_ref().is_some_and(|x| x.as_str() == cm_name)
IsCarrier(config_map_name, cm_name) ==
    config_map_name # NoName /\ config_map_name = cm_name

InitNamed ==
    /\ inst \in [exists : {TRUE}, finalizers : {{}}, deleting : {FALSE},
                 pause : BOOLEAN, secrets : SecretChoices]
    /\ status = NoStatus
    /\ jobs = {}
    /\ rbac = {}
    /\ hackCM = FALSE
    /\ now = 0
    /\ nextUid = 0
    /\ loc = [w \in Workers |-> Resting]
    /\ hist = NoHist
    /\ probe \in [config_map_name : {NoName, "kubit"}, cm_name : ConfigMapNames,
                  pc : {"queued"}, action : {NoResult}, calls : {0}]

\* reconcile_config_map for a ConfigMap that is not the carrier, at most
\* MaxClock times.
SkipConfigMap ==
    /\ probe.pc = "queued"
    /\ probe.calls < MaxClock
    /\ ~IsCarrier(probe.config_map_name, probe.cm_name)
    /\ probe' = [probe EXCEPT !.pc = "scheduled",
                              !.action = Requeue(REQUEUE_AFTER_ERROR),
                              !.calls = @ + 1]
    /\ UNCHANGED <<clusterVars, now, nextUid, loc, hist>>

\* The requeue comes due: the ConfigMap is handed to the reconciler again.
Redeliver ==
    /\ probe.pc = "scheduled"
    /\ probe' = [probe EXCEPT !.pc = "queued", !.action = NoResult]
    /\ UNCHANGED <<clusterVars, now, nextUid, loc, hist>>

\* reconcile_config_map for the carrier: reconcile, as for an AppInstance.
ReconcileCarrierConfigMap ==
    /\ probe.pc = "queued"
    /\ IsCarrier(probe.config_map_name, probe.cm_name)
    /\ \/ \E w \in Workers : Start(w, TRUE)
       \/ \E w \in Workers : ProceedApply(w)
       \/ \E w \in Workers : ProceedDelete(w)
       \/ \E w \in Workers : Fail(w)

NextNamed ==
    \/ SkipConfigMap
    \/ Redeliver
    \/ ReconcileCarrierConfigMap
    \/ Environment

SpecNamed == InitNamed /\ [][NextNamed]_vars

\* ================================================================== claims

\* A reconcile_apply call of w has just returned.
ApplyReturned(w) ==
    loc[w].pc = "done" /\ loc[w].st.kind \in {"Idle", "Executing", "JobTerminated"}

\* The second of two reconcile_apply calls has just returned, with no
\* external change and no failed API call since the first one returned.
SecondCall(w) == ApplyReturned(w) /\ hist.valid

ConditionTypes(conds) == {conds[i].type : i \in 1..Len(conds)}

Events(did, op, obj) == {i \in 1..Len(did) : did[i].op = op /\ did[i].obj = obj}

\* The condition of type t in the instance's status is status_/reason.
HasCondition(t, status_, reason) ==
    LET i == FindCondition(status.conditions, t)
    IN  i # 0 /\ status.conditions[i].status = status_
              /\ status.conditions[i].reason = reason

\* reconcile of w has returned an Action, not an error.
ReturnedOk(w) ==
    loc[w].pc = "done" /\ loc[w].ret.kind \in {"await_change", "requeue"}

\* C2: for an instance whose pause flag matches the reconciler, with the
\* finalizer and without a Job kubit-apply-demo, a reconcile whose launch
\* succeeds creates exactly one Job kubit-apply-demo in namespace ns1, sets
\* Reconcilier to False/ExpandingTemplate and returns await-change.
C2_IdleLaunchesOneJob ==
    \A w \in Workers :
        ReturnedOk(w) /\ loc[w].st.kind = "Idle" /\ loc[w].plan = AwaitChange =>
            /\ Cardinality(Events(loc[w].did, "create", "kubit-apply-demo")) = 1
            /\ Cardinality({j \in jobs : j.name = "kubit-apply-demo"
                                          /\ j.namespace = "ns1"}) = 1
            /\ Cardinality({j \in jobs : j.kind = "apply"}) = 1
            /\ HasCondition("Reconcilier", "False", "ExpandingTemplate")
            /\ loc[w].ret = AwaitChange

\* C2 (witness): such a reconcile has returned, its Job not yet started.
C2_Witness ==
    \E w \in Workers :
        /\ ReturnedOk(w) /\ loc[w].st.kind = "Idle" /\ loc[w].plan = AwaitChange
        /\ loc[w].obj.pause = only_paused(w)
        /\ KUBIT_FINALIZER \in loc[w].obj.finalizers
        /\ \E j \in jobs : j.name = "kubit-apply-demo" /\ j.conds = <<>>

\* C3: whatever the interleaving of reconcile calls, at most one apply Job
\* exists at any time and its name is kubit-apply-demo, so that none is
\* created while another exists.
C3_AtMostOneApplyJob ==
    /\ Cardinality({j \in jobs : j.kind = "apply"}) <= 1
    /\ \A j \in jobs : j.kind = "apply" => j.name = "kubit-apply-demo"

\* C3 (witness): two overlapping calls both observed Idle; the second one's
\* create met the first one's Job and created nothing.
C3_Witness ==
    \E w \in Workers : \E v \in Workers \ {w} :
        /\ loc[w].st.kind = "Idle" /\ loc[w].pc = "status_read"
        /\ loc[w].plan = AwaitChange
        /\ Events(loc[w].did, "create", "kubit-apply-demo") = {}
        /\ loc[v].st.kind = "Idle"
        /\ Events(loc[v].did, "create", "kubit-apply-demo") # {}
        /\ Cardinality({j \in jobs : j.kind = "apply"}) = 1

\* The apply Job that the call of w classified is gone or marked for deletion.
ObservedJobDeleted(w) ==
    /\ Events(loc[w].did, "delete", "kubit-apply-demo") # {}
    /\ \A j \in jobs : j.name = "kubit-apply-demo" /\ j.uid = loc[w].st.uid
                          => j.deleting

\* C4: when reconcile observed the apply Job Complete=True and returns
\* successfully, the status has Reconcilier=True/Succeeded and
\* Ready=True/JobCompletedSuccessfully, the Job has been deleted and the
\* action is await-change.
C4_CompleteJobSucceeds ==
    \A w \in Workers :
        /\ ReturnedOk(w)
        /\ loc[w].st.kind = "JobTerminated" /\ loc[w].st.outcome = "Success"
        => /\ HasCondition("Reconcilier", "True", "Succeeded")
           /\ HasCondition("Ready", "True", "JobCompletedSuccessfully")
           /\ ObservedJobDeleted(w)
           /\ loc[w].ret = AwaitChange

\* C4 (witness): such a call has returned while the deleted Job lingers.
C4_Witness ==
    \E w \in Workers :
        /\ ReturnedOk(w)
        /\ loc[w].st.kind = "JobTerminated" /\ loc[w].st.outcome = "Success"
        /\ \E j \in jobs : j.uid = loc[w].st.uid /\ j.deleting
                              /\ is_job_completed(j)

\* The summaries of the logs that a failed apply Job can leave.
FailureSummaries == {"line1\n...\nline3", "boom\n...\nboom"}

\* C5: when reconcile observed the apply Job Failed=True and returns
\* successfully, the status has Reconcilier=True/Failed and
\* Ready=False/JobFailed with the captured log summary as its message, the
\* Job has been deleted and the action is requeue-after 60 seconds.
C5_FailedJobRetries ==
    \A w \in Workers :
        /\ ReturnedOk(w)
        /\ loc[w].st.kind = "JobTerminated" /\ loc[w].st.outcome = "Failure"
        => /\ HasCondition("Reconcilier", "True", "Failed")
           /\ HasCondition("Ready", "False", "JobFailed")
           /\ status.conditions[FindCondition(status.conditions, "Ready")].message
                  \in FailureSummaries
           /\ \A j \in jobs : j.uid = loc[w].st.uid =>
                 status.conditions[FindCondition(status.conditions, "Ready")].message
                     = log_summary(j.pods)
           /\ ObservedJobDeleted(w)
           /\ loc[w].ret = [kind |-> "requeue", secs |-> 60, err |-> "-"]

\* C5 (witness): such a call has returned for a Job that failed in rendering.
C5_Witness ==
    \E w \in Workers :
        /\ ReturnedOk(w)
        /\ loc[w].st.kind = "JobTerminated" /\ loc[w].st.outcome = "Failure"
        /\ \E j \in jobs : j.uid = loc[w].st.uid /\ j.deleting /\ is_job_failed(j)
        /\ status.conditions[FindCondition(status.conditions, "Ready")].message
               = "line1\n...\nline3"

\* C6: when reconcile observed an executing apply Job it makes no write at
\* all and returns await-change.
C6_ExecutingWritesNothing ==
    \A w \in Workers :
        loc[w].pc = "done" /\ loc[w].st.kind = "Executing" =>
            loc[w].did = <<>> /\ loc[w].ret = AwaitChange

\* C6 (witness): such a call has returned next to a Job without conditions.
C6_Witness ==
    \E w \in Workers :
        /\ loc[w].pc = "done" /\ loc[w].st.kind = "Executing"
        /\ \E j \in jobs : j.name = "kubit-apply-demo" /\ j.conds = <<>>
        /\ status.conditions # <<>>

\* C10: when spec.pause of the delivered instance differs from the
\* reconciler's mode, reconcile makes no write at all and returns
\* await-change, for live instances and for instances being deleted alike.
C10_PauseMismatchWritesNothing ==
    \A w \in Workers :
        loc[w].pc = "done" /\ loc[w].obj.pause # only_paused(w) =>
            loc[w].did = <<>> /\ loc[w].ret = AwaitChange

\* C10 (witness): the other mode's reconciler has been handed an instance
\* that is being deleted and still carries the finalizer.
C10_Witness ==
    \E w \in Workers :
        /\ loc[w].pc = "done" /\ loc[w].obj.pause # only_paused(w)
        /\ loc[w].obj.deleting /\ KUBIT_FINALIZER \in loc[w].obj.finalizers

\* Some condition of type t in conds has status True.
SomeTrue(conds, t) ==
    \E i \in 1..Len(conds) : conds[i].type = t /\ conds[i].status = "True"

\* The first condition of type t in conds has status True.
FirstTrue(conds, t) ==
    \E i \in 1..Len(conds) :
        /\ conds[i].type = t /\ conds[i].status = "True"
        /\ \A k \in 1..(i - 1) : conds[k].type # t

Classified == probe.state.kind # "-"

Awaited(did, cond) ==
    LET hits == Events(did, "await", cond)
    IN  IF hits = {} THEN "-"
        ELSE did[CHOOSE i \in hits : \A k \in hits : i <= k].arg

\* C8 (as stated): when the removal of the apply Job was not confirmed, the
\* deletion cycle launches no cleanup Job, does not delete the ConfigMap
\* demo-cleanup, does not release the finalizer, and returns the
\* deletion-timeout error.
C8_UnconfirmedRemovalStopsDeletion ==
    \A w \in Workers :
        Awaited(loc[w].did, "is_deleted") \in {"timeout", "probe_failed"} =>
            /\ Events(loc[w].did, "create", "kubit-cleanup-demo") = {}
            /\ Events(loc[w].did, "delete", "demo-cleanup") = {}
            /\ Events(loc[w].did, "patch", "finalizers") = {}
            /\ loc[w].pc = "done" =>
                  loc[w].ret = [kind |-> "err", secs |-> 0,
                                err |-> "ResourceDeletionTimeout"]

\* C8 (failing case): the watch on the apply Job failed while the Job was
\* still there, and the cycle went on to release the finalizer.
C8_Witness ==
    \E w \in Workers :
        /\ Awaited(loc[w].did, "is_deleted") = "probe_failed"
        /\ Events(loc[w].did, "create", "kubit-cleanup-demo") # {}
        /\ Events(loc[w].did, "patch", "finalizers") # {}

\* C9 (as stated): the finalizer is released only after the namespaced RBAC
\* objects were applied, the cleanup Job was observed Complete and the
\* ConfigMap demo-cleanup was deleted, in every deletion cycle.
C9_ReleaseOnlyAfterCleanup ==
    \A w \in Workers :
        (\E i \in Events(loc[w].did, "patch", "finalizers") :
             loc[w].did[i].arg = "remove") =>
            /\ \A k \in 1..Len(NamespacedRbac) :
                  Events(loc[w].did, "apply", NamespacedRbac[k]) # {}
            /\ Awaited(loc[w].did, "is_job_completed") = "confirmed"
            /\ \E j \in jobs : j.name = "kubit-cleanup-demo"
            /\ Events(loc[w].did, "delete", "demo-cleanup") # {}

\* C9 (failing case): with neither an apply Job nor a cleanup Job around, the
\* finalizer was released by a cycle that applied no RBAC object and waited
\* for no cleanup Job.
C9_Witness ==
    \E w \in Workers :
        /\ \E i \in Events(loc[w].did, "patch", "finalizers") :
              loc[w].did[i].arg = "remove"
        /\ \A i \in 1..Len(loc[w].did) : loc[w].did[i].op \notin {"apply", "await", "create"}
        /\ \A j \in jobs : j.kind # "cleanup"

\* A reconcile call of w is under way (or has not yet handed back its
\* result) and has written to the cluster.
WritingCall(w) == loc[w].pc # "idle" /\ loc[w].did # <<>>

\* C11 (as stated): the normal-mode and the paused-mode reconciler never both
\* write to the cluster for the instance in overlapping reconcile calls, also
\* when spec.pause is flipped while a call is in progress.
C11_ModesNeverBothWrite ==
    ~(WritingCall("normal") /\ WritingCall("paused"))

\* C11 (failing case): spec.pause was flipped during the normal reconciler's
\* call; both reconcilers are inside overlapping calls and both have written
\* the status of the instance.
C11_Witness ==
    /\ loc["normal"].pc \notin {"idle", "done"}
    /\ loc["paused"].pc \notin {"idle", "done"}
    /\ ~loc["normal"].obj.pause /\ loc["paused"].obj.pause
    /\ Events(loc["normal"].did, "status", "Reconcilier") # {}
    /\ Events(loc["paused"].did, "status", "Reconcilier") # {}


\* The errors launch_job can end with in the model.
LaunchErrors == {"UnsupportedMultipleImagePullSecrets", "KubeError", "OCI"}

\* The call of w observed Idle, its launch failed, and both condition updates
\* of the Err arm went through.
LaunchFailureReported(w) ==
    /\ loc[w].pc = "done" /\ loc[w].st.kind = "Idle"
    /\ loc[w].plan.kind = "err" /\ loc[w].todo = <<>>

\* C12: when reconcile observed Idle and the launch failed, the status has
\* Reconcilier=False/Failed and Ready=False/Failed with a message that carries
\* the launch error, no Job was created, and the launch error is returned.
C12_LaunchFailureSurfaces ==
    \A w \in Workers :
        LaunchFailureReported(w) =>
            /\ HasCondition("Reconcilier", "False", "Failed")
            /\ HasCondition("Ready", "False", "Failed")
            /\ status.conditions[FindCondition(status.conditions, "Ready")].message
                   \in {"Cannot launch installation job: .spec.imagePullSecret currently requires to have exactly one pull secret",
                        "Cannot launch installation job: Kube Error",
                        "Cannot launch installation job: OCI"}
            /\ status.conditions[FindCondition(status.conditions, "Ready")].message
                   = "Cannot launch installation job: " \o ErrorText(loc[w].ret.err)
            /\ Events(loc[w].did, "create", "kubit-apply-demo") = {}
            /\ \A j \in jobs : j.kind # "apply"
            /\ loc[w].ret.kind = "err" /\ loc[w].ret.err \in LaunchErrors

\* C12 (witness): a launch that failed while the Job was being created has
\* been reported, after the RBAC objects were applied.
C12_Witness ==
    \E w \in Workers :
        /\ LaunchFailureReported(w)
        /\ loc[w].ret.err = "KubeError"
        /\ Events(loc[w].did, "apply", "ClusterRoleBinding") # {}


\* update_condition_vec has been called: probe holds the list before the call
\* and the condition the call was asked to set, stamped with its clock reading.
Called == probe.call.type # "-"

\* The positions of the called type in the list before the call.
Stored == {i \in 1..Len(probe.before) : probe.before[i].type = probe.call.type}

\* C13: a call for a type that is already stored with the same status keeps
\* the stored lastTransitionTime and overwrites reason and message with those
\* of the call.
C13_SameStatusKeepsTime ==
    Called =>
        \A i \in Stored :
            probe.before[i].status = probe.call.status =>
                /\ Len(status.conditions) = Len(probe.before)
                /\ status.conditions[i].last_transition_time
                       = probe.before[i].last_transition_time
                /\ status.conditions[i].reason = probe.call.reason
                /\ status.conditions[i].message = probe.call.message
                /\ status.conditions[i].status = probe.call.status
                /\ status.conditions[i].type = probe.call.type

\* C13 (witness): a call with the stored status, another message and another
\* clock reading has been made.
C13_Witness ==
    /\ Called
    /\ \E i \in Stored :
          /\ probe.before[i].status = probe.call.status
          /\ probe.before[i].message # probe.call.message
          /\ probe.before[i].reason # probe.call.reason
          /\ probe.before[i].last_transition_time # probe.call.last_transition_time

C15_OnePerTypeAndStableTime ==
    /\ \A i, k \in 1..Len(status.conditions) :
          status.conditions[i].type = status.conditions[k].type => i = k
    /\ Called =>
          \A i \in 1..Len(probe.before) : \A k \in 1..Len(status.conditions) :
              /\ status.conditions[k].type = probe.before[i].type
              /\ status.conditions[k].last_transition_time
                     # probe.before[i].last_transition_time
              => /\ probe.before[i].type = probe.call.type
                 /\ probe.before[i].status # status.conditions[k].status

\* C15 (witness): with both types stored, a call changed reason and message
\* of one of them at another clock reading and its time stayed.
C15_Witness ==
    /\ Called
    /\ Len(probe.before) = 2 /\ Len(status.conditions) = 2
    /\ \E i \in Stored :
          /\ probe.before[i].status = probe.call.status
          /\ probe.before[i].message # probe.call.message
          /\ probe.call.last_transition_time > probe.before[i].last_transition_time
          /\ status.conditions[i].last_transition_time
                 = probe.before[i].last_transition_time

\* C16: conditions stay in the order in which their types were first added: a
\* new type goes to the end, and an update of a stored type moves nothing and
\* changes no other condition.
C16_FirstSeenOrder ==
    Called =>
        IF Stored = {}
        THEN /\ Len(status.conditions) = Len(probe.before) + 1
             /\ status.conditions[Len(status.conditions)].type = probe.call.type
             /\ \A i \in 1..Len(probe.before) :
                   status.conditions[i] = probe.before[i]
        ELSE /\ Len(status.conditions) = Len(probe.before)
             /\ \A i \in 1..Len(probe.before) :
                   /\ status.conditions[i].type = probe.before[i].type
                   /\ i \notin Stored => status.conditions[i] = probe.before[i]

\* C16 (witness): the first of two stored conditions was updated to another
\* status and is still the first.
C16_Witness ==
    /\ Called
    /\ Len(probe.before) = 2
    /\ 1 \in Stored
    /\ probe.before[1].status # probe.call.status
    /\ status.conditions[1].type = probe.call.type
    /\ status.conditions[2] = probe.before[2]


MultipleSecrets ==
    [kind |-> "err", secs |-> 0, err |-> "UnsupportedMultipleImagePullSecrets"]

\* The launch of w's call has failed with the multiple-secrets error.
FailedForSecrets(w) ==
    loc[w].plan = MultipleSecrets \/ loc[w].ret = MultipleSecrets

\* C17 (as stated): for an instance with no pull secret, imagePullSecrets
\* absent or an empty list, the construction of the apply Job and of the
\* cleanup Job succeeds and the Job has no docker volume; with exactly one
\* pull secret the Job has the docker volume.
C17_ZeroOrOneSecretBuildsJob ==
    /\ \A w \in Workers :
          loc[w].obj.secrets \in {"none", "empty", "one"} => ~FailedForSecrets(w)
    /\ \A j \in jobs : j.docker <=> inst.secrets = "one"

\* C17 (failing case): for an instance whose imagePullSecrets is an empty
\* list the RBAC objects were applied and the package was fetched
\* anonymously, and create_job then failed with the multiple-secrets error.
C17_Witness ==
    \E w \in Workers :
        /\ loc[w].obj.secrets = "empty"
        /\ loc[w].pc = "done" /\ loc[w].st.kind = "Idle"
        /\ loc[w].ret = MultipleSecrets
        /\ Events(loc[w].did, "apply", "ClusterRoleBinding") # {}
        /\ jobs = {}

\* C18 (as stated): for an instance with two pull secrets a launch fails with
\* the multiple-secrets error and the failed attempt creates or modifies no
\* object: no Job and no RBAC object.
C18_TwoSecretsCreateNothing ==
    \A w \in Workers :
        loc[w].obj.secrets = "two" =>
            /\ \A i \in 1..Len(loc[w].did) :
                  loc[w].did[i].op \notin {"apply", "create"}
            /\ loc[w].pc = "done" /\ loc[w].st.kind = "Idle"
                  /\ loc[w].ret.err \notin {"KubeError", "OCI"}
                  => loc[w].ret = MultipleSecrets

\* C18 (failing case): the launch of the apply Job failed for two pull
\* secrets after all five RBAC objects had been applied.
C18_Witness ==
    \E w \in Workers :
        /\ loc[w].obj.secrets = "two"
        /\ loc[w].pc = "done" /\ loc[w].st.kind = "Idle"
        /\ loc[w].ret = MultipleSecrets
        /\ \A k \in 1..Len(NamespacedRbac \o ClusterRbac) :
              Events(loc[w].did, "apply", (NamespacedRbac \o ClusterRbac)[k]) # {}
        /\ rbac = {"ServiceAccount", "Role", "RoleBinding",
                   "ClusterRole", "ClusterRoleBinding"}
        /\ jobs = {}


\* The positions in did at which a jobs.create was answered without creating.
Refusals(did) ==
    Events(did, "refused", "kubit-apply-demo")
        \cup Events(did, "refused", "kubit-cleanup-demo")

\* The step of w is a jobs.create that the API server did not carry out.
RefusedCreate(w) ==
    /\ loc[w].pc \in {"create_job", "launch_cleanup_job"}
    /\ Len(loc'[w].did) = Len(loc[w].did) + 1
    /\ loc'[w].did[Len(loc'[w].did)].op = "refused"

HackDelete(w, op, res) ==
    {i \in Events(loc[w].did, op, "demo-cleanup") : loc[w].did[i].arg = res}

\* C20: when the delete of the ConfigMap demo-cleanup is answered with 404,
\* reconcile_delete succeeds and the next thing the call does is release the
\* finalizer, returning await-change once the patch went through; a 404 is
\* never returned as an error; when the delete is answered with any other
\* error, the call returns KubeError at once and has not released the
\* finalizer.
C20_HackDeleteIdempotent ==
    \A w \in Workers :
        /\ \A i \in HackDelete(w, "delete", "404") :
              IF i = Len(loc[w].did)
              THEN \/ loc[w].pc = "remove_finalizer"
                   \/ /\ loc[w].pc = "done"
                      /\ loc[w].ret.err \in {"KubeError", "RemoveFinalizer"}
              ELSE /\ loc[w].did[i + 1] = Event("patch", "finalizers", "remove")
                   /\ i + 1 = Len(loc[w].did)
                   /\ loc[w].pc = "done"
                   /\ loc[w].ret = AwaitChange
        /\ HackDelete(w, "refused", "404") = {}
        /\ \A i \in Events(loc[w].did, "refused", "demo-cleanup") :
              /\ i = Len(loc[w].did)
              /\ loc[w].pc = "done"
              /\ loc[w].ret = Err("KubeError")
              /\ Events(loc[w].did, "patch", "finalizers") = {}

\* A deletion cycle whose ConfigMap delete was answered with 404 released the
\* finalizer and the instance is gone.
C20_Witness ==
    \E w \in Workers :
        /\ HackDelete(w, "delete", "404") # {}
        /\ Events(loc[w].did, "patch", "finalizers") # {}
        /\ loc[w].ret = AwaitChange
        /\ ~inst.exists

\* A deletion cycle whose ConfigMap delete was answered with an error
\* returned it and the instance still carries the finalizer.
C20_WitnessRefused ==
    \E w \in Workers :
        /\ Events(loc[w].did, "refused", "demo-cleanup") # {}
        /\ loc[w].pc = "done"
        /\ KUBIT_FINALIZER \in inst.finalizers


\* C21 (as stated): when the wait for the cleanup Job ended without the Job
\* being Complete, the deletion cycle returns the deletion-timeout error,
\* does not delete the ConfigMap demo-cleanup and does not release the
\* finalizer.
C21_IncompleteCleanupStopsDeletion ==
    \A w \in Workers :
        Awaited(loc[w].did, "is_job_completed") \in {"timeout", "probe_failed"} =>
            /\ Events(loc[w].did, "delete", "demo-cleanup") = {}
            /\ Events(loc[w].did, "refused", "demo-cleanup") = {}
            /\ Events(loc[w].did, "patch", "finalizers") = {}
            /\ loc[w].pc = "done"
            /\ loc[w].ret = Err("ResourceDeletionTimeout")

\* The wait for the cleanup Job ended with a failed watch, the Job is not
\* Complete, and the cycle deleted the ConfigMap and released the finalizer.
C21_Witness ==
    \E w \in Workers :
        /\ Awaited(loc[w].did, "is_job_completed") = "probe_failed"
        /\ \A j \in get_opt(job_name_for("cleanup")) : ~is_job_completed(j)
        /\ Events(loc[w].did, "delete", "demo-cleanup") # {}
        /\ \E i \in Events(loc[w].did, "patch", "finalizers") :
              loc[w].did[i].arg = "remove"
        /\ ~inst.exists

\* When the 120 s elapsed, the cycle returned the deletion-timeout error at
\* once.
C21_ElapsedTimeoutStopsDeletion ==
    \A w \in Workers :
        Awaited(loc[w].did, "is_job_completed") = "timeout" =>
            /\ Events(loc[w].did, "delete", "demo-cleanup") = {}
            /\ Events(loc[w].did, "refused", "demo-cleanup") = {}
            /\ Events(loc[w].did, "patch", "finalizers") = {}
            /\ loc[w].pc = "done"
            /\ loc[w].ret = Err("ResourceDeletionTimeout")


\* C22 (as stated): every error reconcile returned, for either carrier and
\* the deletion-timeout error included, is scheduled by the error policy as
\* a requeue after 5 s; a requeue after 60 s is only ever the Ok action of a
\* reconcile that found a failed Job.
C22_ErrorsRequeueAfterFive ==
    /\ probe.pc \in {"scheduled", "crashed"} /\ probe.result.kind = "err" =>
          probe.action = Requeue(REQUEUE_AFTER_ERROR)
    /\ probe.action = Requeue(RETRY_AFTER_JOB_FAILURE) =>
          /\ probe.result = Requeue(RETRY_AFTER_JOB_FAILURE)
          /\ probe.obj.job = "failed"

\* reconcile_config_map returned InvalidConfigMap for a ConfigMap of the
\* watched name without data, and the error policy panicked on it.
C22_Witness ==
    /\ probe.obj.carrier = "ConfigMap"
    /\ probe.obj.data = "none"
    /\ probe.result = Err("InvalidConfigMap")
    /\ probe.pc = "crashed"
    /\ probe.action = Panic

\* For an AppInstance and for a ConfigMap with data, every error is a
\* requeue after 5 s, and 60 s follows only a failed Job.
C22_ErrorsRequeueAfterFiveWithData ==
    /\ /\ probe.pc \in {"scheduled", "crashed"}
       /\ probe.result.kind = "err"
       /\ probe.obj.data # "none"
       => probe.action = Requeue(REQUEUE_AFTER_ERROR)
    /\ probe.action = Requeue(RETRY_AFTER_JOB_FAILURE) =>
          /\ probe.result = Requeue(RETRY_AFTER_JOB_FAILURE)
          /\ probe.obj.job = "failed"


\* C23 (as stated): whatever the Job, the Pod and the ConfigMap hold,
\* reconcile and the error policy end with an action or an error value and
\* never with a panic.
C23_NoObjectCrashesController ==
    /\ probe.result # Panic
    /\ probe.action # Panic
    /\ probe.pc # "crashed"

\* reconcile of an AppInstance whose apply Job carries no controller-uid
\* label panicked.
C23_Witness ==
    /\ probe.obj.carrier = "AppInstance"
    /\ probe.obj.job = "unlabelled"
    /\ probe.result = Panic
    /\ probe.pc = "crashed"

\* reconcile of an instance whose terminated Job has a pod without status
\* panicked.
C23_WitnessPodWithoutStatus ==
    /\ probe.obj.job \in {"complete", "failed"}
    /\ ~probe.obj.pod_status
    /\ probe.pc = "crashed"

\* reconcile of a ConfigMap whose data lacks the key app-instance panicked.
C23_WitnessConfigMapWithoutKey ==
    /\ probe.obj.carrier = "ConfigMap"
    /\ probe.obj.data = "no_key"
    /\ probe.result = Panic
    /\ probe.pc = "crashed"


\* Errors of the spec's content, not of the API server or the network.
ConfigurationErrors ==
    {"UnsupportedMultipleImagePullSecrets", "NamespaceRequired",
     "BadImagePullSecretType", "NoDockerConfigJsonInImagePullSecret"}

\* The call of w under way was begun by the requeue that followed a launch
\* which failed with a configuration error, for the same spec.
RetryOfConfigurationError(w) ==
    /\ loc[w].pc # "idle"
    /\ probe[w].trigger = "requeue"
    /\ probe[w].prev.err \in ConfigurationErrors
    /\ probe[w].prevobj.secrets = loc[w].obj.secrets
    /\ probe[w].prevobj.pause = loc[w].obj.pause

\* C24 (as stated): a launch that failed with a configuration error is
\* reported in the Ready condition's message, no requeue is scheduled for it
\* and no call begun by a requeue launches again for the unchanged spec.
C24_ConfigurationErrorNotRetried ==
    \A w \in Workers :
        /\ probe[w].prev.err \in ConfigurationErrors /\ loc[w].pc = "idle" =>
              /\ probe[w].action.kind # "requeue"
              /\ \E i \in 1..Len(status.conditions) :
                    /\ status.conditions[i].type = "Ready"
                    /\ status.conditions[i].message =
                          "Cannot launch installation job: "
                              \o ErrorText(probe[w].prev.err)
        /\ RetryOfConfigurationError(w) => loc[w].st.kind # "Idle"

\* A call begun by the requeue after a multiple-pull-secrets failure applied
\* the RBAC objects again and failed with the same error again.
C24_Witness ==
    \E w \in Workers :
        /\ RetryOfConfigurationError(w)
        /\ loc[w].st.kind = "Idle"
        /\ Events(loc[w].did, "apply", "ClusterRoleBinding") # {}
        /\ loc[w].pc = "done"
        /\ loc[w].ret = Err("UnsupportedMultipleImagePullSecrets")

\* A launch that failed with a configuration error is in the Ready
\* condition's message when its call returns.
C24_ConfigurationErrorReported ==
    \A w \in Workers :
        /\ loc[w].pc = "done"
        /\ loc[w].ret.err \in ConfigurationErrors
        => \E i \in 1..Len(status.conditions) :
              /\ status.conditions[i].type = "Ready"
              /\ status.conditions[i].status = "False"
              /\ status.conditions[i].message =
                    "Cannot launch installation job: " \o ErrorText(loc[w].ret.err)


\* C25 (as stated): once a reconcile call for an instance that is not being
\* deleted has finished, in whichever mode and for whichever value of
\* spec.pause, the instance carries the finalizer.
C25_FinalizerAfterAnyReconcile ==
    \A w \in Workers :
        /\ loc[w].pc = "done"
        /\ ~loc[w].obj.deleting
        /\ inst.exists
        => KUBIT_FINALIZER \in inst.finalizers

\* C25 (amended): once a reconcile call for an instance that was delivered
\* not being deleted and with spec.pause equal to the reconciler's mode has
\* returned an action, the instance carries the finalizer as long as it
\* exists; a reconciler of the other mode leaves the finalizers as they are.
C25_FinalizerAfterMatchingReconcile ==
    \A w \in Workers :
        /\ ReturnedOk(w) /\ ~loc[w].obj.deleting /\ inst.exists =>
              IF loc[w].obj.pause = only_paused(w)
              THEN KUBIT_FINALIZER \in inst.finalizers
              ELSE Events(loc[w].did, "patch", "finalizers") = {}

\* A reconcile in the instance's mode found it without the finalizer and
\* added it.
C25_Witness ==
    \E w \in Workers :
        /\ ReturnedOk(w)
        /\ loc[w].obj.pause = only_paused(w)
        /\ loc[w].obj.finalizers = {}
        /\ loc[w].did = << Event("patch", "finalizers", "add") >>
        /\ inst.finalizers = {KUBIT_FINALIZER}
        /\ ~inst.deleting


\* The first line, "\n...\n" and the last line of a log, a log without
\* lines having neither.
FirstAndLast(log) ==
    (IF log = <<>> THEN "" ELSE Head(log)) \o "\n...\n"
        \o (IF log = <<>> THEN "" ELSE log[Len(log)])

\* C26 (as stated): for one pod with one container that terminated with a
\* non-zero exit code, the summary is the first line of its log, "\n...\n"
\* and its last line, whatever the number of lines; when no container
\* terminated with a non-zero exit code, the summary is empty.
C26_SummaryOfNonZeroExit ==
    probe.done =>
        /\ /\ Len(probe.pods) = 1
           /\ Len(probe.pods[1]) = 1
           /\ probe.pods[1][1].state = "terminated"
           /\ probe.pods[1][1].exit # 0
           => probe.summary = FirstAndLast(probe.pods[1][1].log)
        /\ (\A p \in 1..Len(probe.pods) : \A i \in 1..Len(probe.pods[p]) :
               ~(probe.pods[p][i].state = "terminated" /\ probe.pods[p][i].exit # 0))
           => probe.summary = ""

\* One pod whose one container terminated with a negative exit code after
\* writing three lines: the summary is empty.
C26_Witness ==
    /\ probe.done
    /\ Len(probe.pods) = 1
    /\ Len(probe.pods[1]) = 1
    /\ probe.pods[1][1].state = "terminated"
    /\ probe.pods[1][1].exit < 0
    /\ probe.pods[1][1].log = <<"line1", "line2", "line3">>
    /\ probe.summary = ""

\* With a positive exit code the summary is as stated, for logs of 0, 1 and
\* more lines, and without a container of positive exit code it is empty.
C26_SummaryOfPositiveExit ==
    probe.done =>
        /\ /\ Len(probe.pods) = 1
           /\ Len(probe.pods[1]) = 1
           /\ probe.pods[1][1].state = "terminated"
           /\ probe.pods[1][1].exit > 0
           => probe.summary = FirstAndLast(probe.pods[1][1].log)
        /\ (\A p \in 1..Len(probe.pods) : \A i \in 1..Len(probe.pods[p]) :
               ~(probe.pods[p][i].state = "terminated" /\ probe.pods[p][i].exit > 0))
           => probe.summary = ""

\* The example of the scenario: "line1\nline2\nline3\n" gives
\* "line1\n...\nline3".
C26_WitnessExample ==
    /\ probe.done
    /\ Len(probe.pods) = 1
    /\ Len(probe.pods[1]) = 1
    /\ probe.pods[1][1].exit = 1
    /\ probe.pods[1][1].log = <<"line1", "line2", "line3">>
    /\ probe.summary = "line1\n...\nline3"


\* The container has a state and it is not waiting.
HadStarted(cs) == cs.state \in {"running", "terminated"}

\* The log of the container called n in the pod, if it had started.
StartedLog(pod, n) ==
    LET hits == {i \in 1..Len(pod) : pod[i].name = n /\ HadStarted(pod[i])}
    IN  IF hits = {} THEN <<>> ELSE pod[CHOOSE i \in hits : TRUE].log

\* C30: after capture_logs, status.lastLogs has one entry for each container
\* name that had started in one of the listed pods, and for no other name;
\* the entry holds the container's whole log, whether or not it failed, and
\* with two pods the logs of the name in the first and in the second pod one
\* after the other.
C30_LastLogsPerStartedContainer ==
    probe.done =>
        LET pods == probe.pods
            started == {n \in {"render-manifests", "apply-manifests"} :
                          \E p \in 1..Len(pods) : \E i \in 1..Len(pods[p]) :
                             pods[p][i].name = n /\ HadStarted(pods[p][i])}
        IN  /\ status.has_logs
            /\ {e[1] : e \in status.last_logs} = started
            /\ Cardinality(status.last_logs) = Cardinality(started)
            /\ \A e \in status.last_logs :
                  e[2] = IF Len(pods) = 1 THEN StartedLog(pods[1], e[1])
                         ELSE StartedLog(pods[1], e[1]) \o StartedLog(pods[2], e[1])

\* Two pods with a container of the same name, one failed and one running:
\* one entry with both logs.
C30_Witness ==
    /\ probe.done
    /\ Len(probe.pods) = 2
    /\ probe.pods[1][1] = ContainerStatus("render-manifests", "terminated", 1,
                                          <<"line1", "line2">>)
    /\ probe.pods[2][1] = ContainerStatus("render-manifests", "running", 0,
                                          <<"line1">>)
    /\ status.last_logs = {<<"render-manifests", <<"line1", "line2", "line1">>>>}


\* reconcile has handled a failed apply Job and is about to hand back the
\* requeue, and the runtime can still invoke reconcile.
FailureHandled ==
    \E w \in Workers :
        /\ loc[w].pc = "done"
        /\ loc[w].st.kind = "JobTerminated"
        /\ loc[w].st.outcome = "Failure"
        /\ loc[w].ret = Requeue(RETRY_AFTER_JOB_FAILURE)
        /\ now < MaxClock

\* A new apply Job has just been created.
FreshApplyJob ==
    \E j \in jobs : j.name = "kubit-apply-demo" /\ ~j.deleting /\ j.conds = <<>>

\* A launch did not succeed: the API server refused the create.
LaunchRefused ==
    \E w \in Workers : Events(loc[w].did, "refused", "kubit-apply-demo") # {}

\* reconcile was invoked for the last time while the failed Job was still
\* being removed.
LastInvocationBeforeRemoval ==
    now = MaxClock /\ \E j \in jobs : j.name = "kubit-apply-demo" /\ j.deleting

\* C27: once reconcile has handled a failed apply Job, a new Job
\* kubit-apply-demo is eventually created, unless a launch is refused or
\* reconcile is not invoked again after the failed Job has been removed.
C27_FailedJobIsRelaunched ==
    FailureHandled ~> (FreshApplyJob \/ LaunchRefused \/ LastInvocationBeforeRemoval)

\* A second apply Job exists after the first one failed, was reported and
\* was deleted.
C27_Witness ==
    /\ HasCondition("Ready", "False", "JobFailed")
    /\ \E j \in jobs : j.name = "kubit-apply-demo" /\ j.uid = 2
                          /\ ~j.deleting /\ j.conds = <<>>
    /\ probe["normal"].trigger = "requeue"


\* The status writes among the first n events of a call.
StatusWritesIn(did, n) ==
    SelectSeq(SubSeq(did, 1, n), LAMBDA e : e.op = "status")

\* reconcile of w has returned an error from the JobTerminated branch
\* without having issued delete_job.
FailedBeforeDelete(w) ==
    /\ loc[w].pc = "done" /\ loc[w].ret.kind = "err"
    /\ loc[w].st.kind = "JobTerminated"
    /\ Events(loc[w].did, "delete", "kubit-apply-demo") = {}

\* C28: in the JobTerminated branch the delete of the Job is the last call:
\* the lastLogs write, the Reconcilier write and the Ready write precede it
\* in this order; no step before it changes the Jobs, and when one of them
\* fails reconcile returns the error and the Job, as long as it exists, is
\* classified JobTerminated again.
C28_JobDeletedLast ==
    /\ [](\A w \in Workers :
            /\ loc[w].st.kind = "JobTerminated"
               => \A i \in Events(loc[w].did, "delete", "kubit-apply-demo") :
                     LET s == StatusWritesIn(loc[w].did, i - 1)
                     IN  /\ i = Len(loc[w].did)
                         /\ Len(s) = 3
                         /\ s[1].obj = "lastLogs"
                         /\ s[2].obj = "Reconcilier"
                         /\ s[2].arg \in {"True/Succeeded", "True/Failed"}
                         /\ s[3].obj = "Ready"
                         /\ s[3].arg \in {"True/JobCompletedSuccessfully",
                                          "False/JobFailed"}
            /\ FailedBeforeDelete(w)
               => \A j \in jobs :
                     j.name = "kubit-apply-demo" /\ j.uid = loc[w].st.uid
                     => reconciliation_state(get_opt("kubit-apply-demo"))
                            = loc[w].st)
    /\ [][\A w \in Workers :
            /\ loc[w].st.kind = "JobTerminated"
            /\ loc[w].pc \in {"capture_logs", "status_read", "status_write"}
            /\ loc'[w] # loc[w]
            => jobs' = jobs]_vars

\* A call has failed between the lastLogs write and the Ready write, and the
\* terminated Job is still there, not marked for deletion.
C28_Witness ==
    \E w \in Workers :
        /\ FailedBeforeDelete(w)
        /\ Events(loc[w].did, "status", "lastLogs") # {}
        /\ Events(loc[w].did, "status", "Ready") = {}
        /\ \E j \in jobs : /\ j.name = "kubit-apply-demo"
                           /\ j.uid = loc[w].st.uid /\ ~j.deleting
        /\ reconciliation_state(get_opt("kubit-apply-demo")).kind = "JobTerminated"

\* A call has deleted the terminated Job after its three status writes.
C28_WitnessDeleted ==
    \E w \in Workers :
        /\ loc[w].st.kind = "JobTerminated" /\ ReturnedOk(w)
        /\ Events(loc[w].did, "delete", "kubit-apply-demo") = {4}


\* The kinds of the objects applied among the first n events of a call.
AppliedIn(did, n) ==
    LET s == SelectSeq(SubSeq(did, 1, n), LAMBDA e : e.op = "apply")
    IN  [k \in 1..Len(s) |-> s[k].obj]

\* The events of a call in which it asked the API server to create Job name.
CreateCalls(did, name) == Events(did, "create", name) \cup Events(did, "refused", name)

\* C29: a call asks for the creation of Job kubit-apply-demo only after it
\* has applied ServiceAccount, Role, RoleBinding, ClusterRole and
\* ClusterRoleBinding in this order, and for Job kubit-cleanup-demo only
\* after ServiceAccount, Role and RoleBinding; a call for a deleted instance
\* applies no ClusterRole and no ClusterRoleBinding; a call that has not
\* applied all of them asks for no Job.
C29_RbacBeforeJob ==
    \A w \in Workers :
        LET did == loc[w].did
        IN  /\ \A i \in CreateCalls(did, "kubit-apply-demo") :
                  AppliedIn(did, i - 1) = NamespacedRbac \o ClusterRbac
            /\ \A i \in CreateCalls(did, "kubit-cleanup-demo") :
                  AppliedIn(did, i - 1) = NamespacedRbac
            /\ loc[w].obj.deleting
               => /\ Events(did, "apply", "ClusterRole") = {}
                  /\ Events(did, "apply", "ClusterRoleBinding") = {}
            /\ Len(AppliedIn(did, Len(did))) < Len(NamespacedRbac)
               => /\ CreateCalls(did, "kubit-apply-demo") = {}
                  /\ CreateCalls(did, "kubit-cleanup-demo") = {}
            /\ /\ ~loc[w].obj.deleting
               /\ Len(AppliedIn(did, Len(did))) < Len(NamespacedRbac \o ClusterRbac)
               => CreateCalls(did, "kubit-apply-demo") = {}

\* The cleanup Job has been created by a call that applied the three
\* namespaced objects and nothing else.
C29_Witness ==
    \E w \in Workers :
        /\ loc[w].obj.deleting
        /\ Events(loc[w].did, "create", "kubit-cleanup-demo") # {}
        /\ AppliedIn(loc[w].did, Len(loc[w].did)) = NamespacedRbac
        /\ \E j \in jobs : j.name = "kubit-cleanup-demo"

\* The apply Job has been created after all five objects.
C29_WitnessInstall ==
    \E w \in Workers :
        /\ Events(loc[w].did, "create", "kubit-apply-demo") # {}
        /\ AppliedIn(loc[w].did, Len(loc[w].did)) = NamespacedRbac \o ClusterRbac

\* A call whose RoleBinding apply failed has returned without a Job.
C29_WitnessFailedStep ==
    \E w \in Workers :
        /\ loc[w].pc = "done" /\ loc[w].ret.kind = "err"
        /\ AppliedIn(loc[w].did, Len(loc[w].did)) = <<"ServiceAccount", "Role">>
        /\ jobs = {}



\* The status s with every lastTransitionTime cut to whole seconds.
WholeSeconds(s) ==
    [s EXCEPT !.conditions =
        [i \in 1..Len(s.conditions) |->
            [s.conditions[i] EXCEPT !.last_transition_time.millis = 0]]]

\* C31 (as stated): after update_status(s) succeeded, old_status returns a
\* status equal to s, for both carriers; a ConfigMap without data or without
\* the key status reads as the empty status.
C31_StatusRoundTrips ==
    /\ probe.pc = "read_back" => probe.read = StatusOk(probe.s)
    /\ /\ probe.pc = "read_fresh" /\ probe.obj.kind = "ConfigMap"
       /\ ~probe.obj.has_data \/ ~probe.obj.has_status
       => probe.read = StatusOk(NoStatus)

\* C31 (amended): after update_status(s) succeeded, old_status returns s
\* with every lastTransitionTime cut to whole seconds and everything else the
\* same (conditions in the same order, same lastLogs), for both carriers; a
\* ConfigMap without data or without the key status reads as the empty
\* status.
C31_StatusRoundTripsToTheSecond ==
    /\ probe.pc = "read_back" => probe.read = StatusOk(WholeSeconds(probe.s))
    /\ /\ probe.pc = "read_fresh" /\ probe.obj.kind = "ConfigMap"
       /\ ~probe.obj.has_data \/ ~probe.obj.has_status
       => probe.read = StatusOk(NoStatus)

\* A status of two conditions stamped within a second, with lastLogs, has
\* been written to the ConfigMap and read back.
C31_Witness ==
    /\ probe.pc = "read_back" /\ probe.obj.kind = "ConfigMap"
    /\ Len(probe.s.conditions) = 2 /\ probe.s.has_logs
    /\ probe.s.conditions[1].type = "Ready"
    /\ probe.s.conditions[1].last_transition_time.millis = 500
    /\ probe.read.status.conditions[1].type = "Ready"
    /\ probe.read.status.last_logs = {<<"render-manifests", "line1">>}

\* A ConfigMap without data has been read.
C31_WitnessNoData ==
    /\ probe.pc = "read_fresh" /\ probe.obj.kind = "ConfigMap"
    /\ ~probe.obj.has_data


\* The Ready condition of a status: a list of one condition, or empty.
ReadyCondition(st) ==
    LET i == FindCondition(st.conditions, "Ready")
    IN  IF i = 0 THEN <<>> ELSE <<st.conditions[i]>>

\* reconcile_apply of w is under way and has neither seen a terminated Job
\* nor a failed launch.
LaunchingOrWaiting(w) ==
    /\ loc[w].pc # "idle" /\ ~loc[w].obj.deleting
    /\ loc[w].st.kind \in {"-", "Idle", "Executing"}
    /\ loc[w].plan.kind # "err"

\* C32: a reconcile that observes Idle and launches the Job, and one that
\* observes Executing, leave the Ready condition as it was (status, reason,
\* message, lastTransitionTime): no step of such a call changes it, the
\* returned call has the Ready condition with which the call before it
\* ended, and after a launch the Reconcilier condition is
\* False/ExpandingTemplate.
C32_ReadySticksAcrossRetry ==
    /\ [](\A w \in Workers :
            /\ SecondCall(w) /\ ReturnedOk(w)
               /\ loc[w].st.kind \in {"Idle", "Executing"}
               => ReadyCondition(status) = ReadyCondition(hist.end.status)
            /\ ReturnedOk(w) /\ loc[w].st.kind = "Idle"
               => HasCondition("Reconcilier", "False", "ExpandingTemplate"))
    /\ [][\A w \in Workers :
            LaunchingOrWaiting(w) /\ loc'[w] # loc[w]
            => ReadyCondition(status') = ReadyCondition(status)]_vars

\* The retry Job has been launched after a failed run, and the failure is
\* still what Ready reports.
C32_Witness ==
    \E w \in Workers :
        /\ SecondCall(w) /\ ReturnedOk(w) /\ loc[w].st.kind = "Idle"
        /\ HasCondition("Ready", "False", "JobFailed")
        /\ status.conditions[FindCondition(status.conditions, "Ready")].message
               = "line1\n...\nline3"
        /\ HasCondition("Reconcilier", "False", "ExpandingTemplate")
        /\ \E j \in jobs : j.name = "kubit-apply-demo" /\ ~j.deleting
                              /\ j.conds = <<>>


\* The docker config of the Secret is JSON in which every entry of auths has
\* a username and a password, or an auth.
WellFormedConfig ==
    /\ probe.secret.config.json
    /\ \A r \in DOMAIN probe.secret.config.auths :
          LET f == probe.secret.config.auths[r].fields
          IN  {"username", "password"} \subseteq f \/ "auth" \in f

\* The instance names one pull secret, the Secret was read, is of type
\* kubernetes.io/dockerconfigjson and has a well-formed .dockerconfigjson,
\* and the image is a reference; the credentials have been resolved.
ResolvedFromConfig ==
    /\ probe.auth # NoAuth /\ probe.auth.err # "KubeError"
    /\ inst.secrets = "one"
    /\ probe.secret.type = "kubernetes.io/dockerconfigjson"
    /\ probe.secret.has_key
    /\ WellFormedConfig
    /\ probe.registry # "invalid"

\* The entry of the image's registry, when the config lists it.
ListedEntry == probe.secret.config.auths[probe.registry]

\* C33: the resolution gives anonymous access for an instance without pull
\* secrets (absent or empty list) and for a well-formed docker config
\* without an entry for the image's registry; for a listed registry it gives
\* the entry's username and password, from the split fields or from the
\* base64 text user:pass cut at its first colon; an auth without a colon, a
\* Secret of another type and a Secret without the key .dockerconfigjson
\* give MissingColon, BadImagePullSecretType and
\* NoDockerConfigJsonInImagePullSecret.
C33_CredentialResolution ==
    probe.auth # NoAuth /\ probe.auth.err # "KubeError" =>
        /\ inst.secrets \in {"none", "empty"} => probe.auth = Anonymous
        /\ ResolvedFromConfig /\ probe.registry \notin DOMAIN probe.secret.config.auths
           => probe.auth = Anonymous
        /\ ResolvedFromConfig /\ probe.registry \in DOMAIN probe.secret.config.auths
           => /\ {"username", "password"} \subseteq ListedEntry.fields
                 => probe.auth = Basic("bar", "secret")
              /\ ~({"username", "password"} \subseteq ListedEntry.fields)
                 => /\ ListedEntry.auth = "Zm9vOmh1bnRlcjEy"
                       => probe.auth = Basic("foo", "hunter12")
                    /\ ListedEntry.auth = "YTpiOmM="
                       => probe.auth = Basic("a", "b:c")
                    /\ ListedEntry.auth = "Og=="
                       => probe.auth = Basic("", "")
                    /\ ListedEntry.auth = "Zm9v"
                       => probe.auth = AuthErr("DecodeDockerConfig:MissingColon")
        /\ inst.secrets = "one"
           /\ probe.secret.type # "kubernetes.io/dockerconfigjson"
           => probe.auth = AuthErr("BadImagePullSecretType")
        /\ inst.secrets = "one"
           /\ probe.secret.type = "kubernetes.io/dockerconfigjson"
           /\ ~probe.secret.has_key
           => probe.auth = AuthErr("NoDockerConfigJsonInImagePullSecret")

\* The credentials a:b:c in base64 have been resolved for the image's
\* registry, next to an entry of split fields for the other registry.
C33_Witness ==
    /\ ResolvedFromConfig
    /\ DOMAIN probe.secret.config.auths = Registries
    /\ ListedEntry.fields = {"auth"} /\ ListedEntry.auth = "YTpiOmM="
    /\ probe.auth.kind = "Basic" /\ probe.auth.password = "b:c"

\* Anonymous access has been resolved from a docker config that lists only
\* the other registry.
C33_WitnessAnonymous ==
    /\ ResolvedFromConfig
    /\ probe.registry = "ghcr.io"
    /\ DOMAIN probe.secret.config.auths = {"us-docker.pkg.dev"}
    /\ probe.auth = Anonymous


\* The deletion workflow of the instance has run to its end: reconcile_delete
\* returned, the finalizer was removed and the API server dropped the object.
DeletionCompleted ==
    ~inst.exists /\ inst.deleting /\ KUBIT_FINALIZER \notin inst.finalizers

\* C34: whenever a Job kubit-apply-demo or kubit-cleanup-demo exists, the
\* instance holds the finalizer or has completed its deletion workflow; and
\* a call asks for the creation of a Job only for a delivered object that
\* holds the finalizer.
C34_JobsOnlyUnderTheFinalizer ==
    /\ jobs # {} => KUBIT_FINALIZER \in inst.finalizers \/ DeletionCompleted
    /\ \A w \in Workers :
          CreateCalls(loc[w].did, "kubit-apply-demo")
              \cup CreateCalls(loc[w].did, "kubit-cleanup-demo") # {}
          => KUBIT_FINALIZER \in loc[w].obj.finalizers

\* The cleanup Job is still there after the deletion workflow has completed.
C34_Witness ==
    /\ DeletionCompleted
    /\ \E j \in jobs : j.name = "kubit-cleanup-demo"

\* The apply Job runs for an instance that holds the finalizer.
C34_WitnessApply ==
    /\ inst.exists /\ ~inst.deleting /\ KUBIT_FINALIZER \in inst.finalizers
    /\ \E j \in jobs : j.name = "kubit-apply-demo" /\ ~j.deleting


\* reconcile has handled a completed apply Job and is about to hand back
\* await-change, and the runtime can still invoke reconcile.
SuccessHandled ==
    \E w \in Workers :
        /\ loc[w].pc = "done"
        /\ loc[w].st.kind = "JobTerminated"
        /\ loc[w].st.outcome = "Success"
        /\ loc[w].ret = AwaitChange
        /\ now < MaxClock

\* C35: a reconcile that observed Idle and returned an action has created an
\* apply Job, whatever the status says; and once reconcile has handled a
\* completed Job, a new Job kubit-apply-demo is eventually created for the
\* unchanged spec, unless a launch is refused or reconcile is not invoked
\* again after the completed Job has been removed.
C35_IdleAlwaysLaunches ==
    /\ [](\A w \in Workers :
            ReturnedOk(w) /\ loc[w].st.kind = "Idle"
            => /\ Events(loc[w].did, "create", "kubit-apply-demo") # {}
               /\ \E j \in jobs : j.name = "kubit-apply-demo" /\ ~j.deleting)
    /\ (SuccessHandled
           ~> (FreshApplyJob \/ LaunchRefused \/ LastInvocationBeforeRemoval))

\* A second apply Job has been created, by a call that the removal of the
\* first Job began, while the status reports the successful run and its logs.
C35_Witness ==
    /\ HasCondition("Ready", "True", "JobCompletedSuccessfully")
    /\ status.has_logs
    /\ probe["normal"].trigger = "watch"
    /\ ReturnedOk("normal") /\ loc["normal"].st.kind = "Idle"
    /\ \E j \in jobs : j.name = "kubit-apply-demo" /\ j.uid = 2
                          /\ ~j.deleting /\ j.conds = <<>>


\* The cleanup Job exists and has failed: it cannot reach Complete any more.
CleanupJobFailed ==
    \E j \in jobs : j.name = "kubit-cleanup-demo" /\ is_job_failed(j)

\* The deletion cycle of w found the cleanup Job in place: its create was
\* answered 409.
FoundCleanupJob(w) ==
    \E i \in Events(loc[w].did, "refused", "kubit-cleanup-demo") :
        loc[w].did[i].arg = "409"

\* C36 (as stated): a deletion cycle that found the cleanup Job in place,
\* the Job having failed, does not release the finalizer and ends with the
\* deletion-timeout error, so that the instance is not deleted.
C36_FailedCleanupJobBlocksDeletion ==
    \A w \in Workers :
        CleanupJobFailed /\ FoundCleanupJob(w) =>
            /\ Events(loc[w].did, "patch", "finalizers") = {}
            /\ inst.exists /\ KUBIT_FINALIZER \in inst.finalizers
            /\ loc[w].pc = "done" => loc[w].ret = Err("ResourceDeletionTimeout")

\* A deletion cycle found the failed cleanup Job (409), its wait ended with a
\* failed watch, and it released the finalizer: the instance is gone while
\* the failed Job is still there.
C36_Witness ==
    /\ CleanupJobFailed
    /\ ~inst.exists
    /\ \E w \in Workers :
          /\ FoundCleanupJob(w)
          /\ Awaited(loc[w].did, "is_job_completed") = "probe_failed"
          /\ \E i \in Events(loc[w].did, "patch", "finalizers") :
                loc[w].did[i].arg = "remove"

\* reconcile_delete never deletes or replaces the cleanup Job: as long as
\* the instance exists the Job stays, with its UID.
C36_CleanupJobIsKept ==
    [][\A j \in jobs :
          j.name = "kubit-cleanup-demo" /\ inst'.exists
          => \E k \in jobs' : k.name = j.name /\ k.uid = j.uid /\ ~k.deleting]_vars

\* A deletion cycle that found the failed cleanup Job and whose 120 s
\* elapsed ends with the deletion-timeout error and keeps the finalizer.
C36_ElapsedTimeoutBlocksDeletion ==
    \A w \in Workers :
        /\ CleanupJobFailed /\ FoundCleanupJob(w)
        /\ Awaited(loc[w].did, "is_job_completed") = "timeout"
        => /\ loc[w].ret = Err("ResourceDeletionTimeout")
           /\ inst.exists /\ KUBIT_FINALIZER \in inst.finalizers


\* The apply Jobs that the step marks for deletion.
NewlyDeleted ==
    {j \in jobs : /\ j.name = "kubit-apply-demo" /\ ~j.deleting
                  /\ \E k \in jobs' : k.uid = j.uid /\ k.deleting}

\* C37 (as stated): the Job that delete_job removes at the end of a
\* JobTerminated reconcile is the Job that was classified, with the same
\* UID, and it has terminated: no executing apply Job is deleted.
C37_DeletesTheClassifiedJob ==
    [][\A w \in Workers :
          /\ loc[w].pc = "delete_job" /\ loc[w].st.kind = "JobTerminated"
          /\ loc'[w] # loc[w]
          => \A j \in NewlyDeleted :
                /\ j.uid = loc[w].st.uid
                /\ is_job_completed(j) \/ is_job_failed(j)]_vars


\* A reconcile that had classified the terminated Job with UID 1 has deleted
\* the executing Job with UID 2, which the other reconciler had created in
\* the meantime.
C37_Witness ==
    \E w \in Workers :
        /\ loc[w].pc = "done" /\ loc[w].st.kind = "JobTerminated"
        /\ loc[w].st.uid = 1
        /\ Events(loc[w].did, "delete", "kubit-apply-demo") # {}
        /\ \E j \in jobs : /\ j.name = "kubit-apply-demo" /\ j.uid = 2
                           /\ j.deleting /\ j.conds = <<>>
        /\ \E v \in Workers \ {w} :
              Events(loc[v].did, "create", "kubit-apply-demo") # {}

\* With one reconcile of the instance at a time, the Job that delete_job
\* removes is the one that was classified.
C37_DeletesTheClassifiedJobWhenAlone ==
    [][\A w \in Workers :
          /\ loc[w].pc = "delete_job" /\ loc[w].st.kind = "JobTerminated"
          /\ loc'[w] # loc[w]
          /\ \A v \in Workers \ {w} : loc[v].pc = "idle"
          => \A j \in NewlyDeleted :
                /\ j.uid = loc[w].st.uid
                /\ is_job_completed(j) \/ is_job_failed(j)]_vars


\* The five objects that the launch of an apply Job for t patches.
LaunchedObjects(t) ==
    {SharedKey(LaunchPlan("apply")[i], probe.ns[t]) : i \in 1..Len(LaunchPlan("apply"))}

NamesOnly(key, t) ==
    /\ probe.store[key].exists
    /\ probe.store[key].owners = {OwnerRef(t)}
    /\ key[1] = "ClusterRoleBinding" => probe.store[key].subject_ns = probe.ns[t]

\* C38: the RBAC objects are shared and the last writer wins: there is one
\* ServiceAccount, Role and RoleBinding kubit-applier per namespace and one
\* ClusterRole and ClusterRoleBinding kubit-applier-crd per cluster, whatever
\* the number of instances; each of them carries the owner reference (and the
\* ClusterRoleBinding the subject namespace) of the instance whose patch
\* reached it last, and nothing of any other; once an instance has been
\* provisioned undisturbed, the five objects it uses name only that instance.
C38_SharedLastWriterWins ==
    /\ \A key \in SharedKeys :
          /\ probe.store[key].exists <=> probe.last[key] # "-"
          /\ probe.store[key].exists =>
                /\ probe.store[key].name =
                      (IF key[1] \in {"ClusterRole", "ClusterRoleBinding"}
                       THEN "kubit-applier-crd" ELSE "kubit-applier")
                /\ NamesOnly(key, probe.last[key])
    /\ probe.settled # "-" =>
          \A key \in LaunchedObjects(probe.settled) : NamesOnly(key, probe.settled)

\* Instance b has been provisioned after instance a of the same namespace:
\* the five objects, which named a before, name b.
C38_Witness ==
    /\ probe.ns["a"] = probe.ns["b"]
    /\ "a" \in probe.provisioned
    /\ probe.settled = "b"
    /\ \A key \in LaunchedObjects("a") : NamesOnly(key, "b")

\* Instances of two namespaces: the namespaced objects are not shared, the
\* cluster-wide ones are and bind the ServiceAccount of b's namespace only.
C38_WitnessTwoNamespaces ==
    /\ probe.ns["a"] # probe.ns["b"]
    /\ "a" \in probe.provisioned
    /\ probe.settled = "b"
    /\ NamesOnly(SharedKey("Role", probe.ns["a"]), "a")
    /\ probe.store[SharedKey("ClusterRoleBinding", "")].subject_ns = probe.ns["b"]


\* An apply Job that is neither Complete nor Failed.
ExecutingApplyJobs ==
    {j \in jobs : /\ j.name = "kubit-apply-demo"
                  /\ ~is_job_completed(j) /\ ~is_job_failed(j)}

NoReconcileInProgress == \A w \in Workers : loc[w].pc \in {"idle", "done"}

\* C39: whenever an apply Job exists that is neither Complete nor Failed and
\* no reconcile of the instance is in progress, the Reconcilier condition is
\* False/ExpandingTemplate, also after a failed condition write between the
\* creation of the Job and the write of the condition.
C39_ExecutingJobShowsExpandingTemplate ==
    ExecutingApplyJobs # {} /\ NoReconcileInProgress
        => HasCondition("Reconcilier", "False", "ExpandingTemplate")


\* A reconcile that found the Job executing has returned, and the status
\* still lacks the condition that the failed launch never wrote.
C39_Witness ==
    \E w \in Workers :
        /\ ReturnedOk(w) /\ loc[w].st.kind = "Executing"
        /\ ExecutingApplyJobs # {}
        /\ NoReconcileInProgress
        /\ ~HasCondition("Reconcilier", "False", "ExpandingTemplate")

\* A launch that returned without an error leaves the condition in place.
C39_CleanLaunchShowsExpandingTemplate ==
    \A w \in Workers :
        /\ ReturnedOk(w) /\ loc[w].st.kind = "Idle"
        /\ Events(loc[w].did, "create", "kubit-apply-demo") # {}
        => HasCondition("Reconcilier", "False", "ExpandingTemplate")


\* The ConfigMap delivered is not the one named in config_map_name.
NotTheCarrier ==
    probe.config_map_name = NoName \/ probe.config_map_name # probe.cm_name

\* C40: in ConfigMap mode only the ConfigMap whose name equals the configured
\* config_map_name is treated as a carrier: for every other ConfigMap
\* reconcile adds no finalizer, creates no Job and no RBAC object, writes no
\* status, and returns a requeue after 5 seconds.
C40_OtherConfigMapsAreLeftAlone ==
    NotTheCarrier =>
        /\ inst.finalizers = {}
        /\ jobs = {}
        /\ rbac = {}
        /\ status = NoStatus
        /\ hackCM = FALSE
        /\ \A w \in Workers : loc[w] = Resting
        /\ probe.pc = "scheduled" => probe.action = Requeue(5)

\* A ConfigMap with another name has been through reconcile_config_map.
C40_Witness ==
    /\ probe.config_map_name = "kubit" /\ probe.cm_name = "other"
    /\ probe.pc = "scheduled"
    /\ probe.calls = 2
    /\ probe.action = Requeue(5)
    /\ inst.exists

\* The ConfigMap of the configured name is reconciled: it has the finalizer
\* and its apply Job.
C40_WitnessCarrier ==
    /\ probe.config_map_name = "kubit" /\ probe.cm_name = "kubit"
    /\ KUBIT_FINALIZER \in inst.finalizers
    /\ \E j \in jobs : j.name = "kubit-apply-demo"

====
